---- MODULE Spec2Model ----
(***************************************************************************)
(* Execution engine: the runtime context of one Wasm invocation            *)
(* (engine/src/runtime_context.rs), the host interface and sub-calls       *)
(* (engine/src/execution.rs) and the per-deploy payment pipeline           *)
(* (engine-core/src/engine_state/mod.rs).                                  *)
(***************************************************************************)
EXTENDS Integers, Sequences, FiniteSets, TLC

VARIABLES
    stack,        \* the nested Runtimes, innermost last; each holds its RuntimeContext
    received,     \* history: per Runtime, the URef addresses handed to it by the host
    minted,       \* history: the inputs of exec and the addresses generated since
    tc,           \* the TrackingCopy shared (Rc) by all Runtimes of one exec
    trap,         \* the Trap unwinding the innermost Runtime, if any
    last,         \* the last host call and what it returned
    exec_result,  \* what Executor::exec returned
    steps,        \* host calls made so far
    dphase,       \* EngineState::deploy: position in the pipeline
    deploy_item,  \* deploy: what the request carries (authorization, modules)
    prestate,     \* deploy: the purse balances of the global state at prestate_hash
    purses,       \* deploy: the purse balances in the deploy's tracking copy
    account_main_purse_balance, \* deploy: main purse balance read before payment
    payment_purse_balance,      \* deploy: payment purse balance read after payment
    payment_result, \* deploy: result of the payment code
    session_result, \* deploy: result of the session code
    session_tc,   \* deploy: the purse balances in the fork the session code ran on
    deploy_result, \* deploy: the ExecutionResult returned
    protocol_data_store, \* global state: the persisted ProtocolData of each version
    state_roots,  \* global state: the root hashes of the persisted tries
    upgrade_result, \* commit_upgrade: what it returned
    db,           \* store: the committed value under each database handle
    txn,          \* store: per thread, its open transaction and what it sees
    th,           \* store: per thread, where it is in its operation
    map_size,     \* store: the map size of the environment of this process
    disk_map_size, \* store: the map size persisted in the environment's file
    history,      \* InMemHist: the global state under each root hash
    trie_store,   \* LmdbGlobalState: the trie nodes stored, each under its hash
    returned,     \* history: the roots returned so far, each with the state it then held
    last_commit,  \* the last commit and its CommitResult
    last_checkout, \* the last checkout and what it returned
    exec_request, \* run_execute: the parent state hash and the deploys still to run
    results,      \* run_execute: the results pushed, and what it returned
    metadata,     \* ContractMetadata: access key, active and removed versions
    versions,     \* history: the header each version was added with, and the last result
    writers,      \* lmdb_ext test_thread: per thread its position, and the shared file
    grouping      \* vec_key_rights_to_map: the keys it is given and the map it returns

rvars == <<stack, received, minted, tc, trap, last, exec_result, steps>>
mvars == <<metadata, versions, writers, grouping>>
hvars == <<history, trie_store, returned, last_commit, last_checkout, mvars>>
bvars == <<exec_request, results>>
svars == <<db, txn, th, map_size, disk_map_size, hvars, bvars>>
pvars == <<protocol_data_store, state_roots, upgrade_result, svars>>
dvars == <<dphase, deploy_item, prestate, purses, account_main_purse_balance,
           payment_purse_balance, payment_result, session_result, session_tc,
           deploy_result, protocol_data_store, state_roots, upgrade_result, svars>>
vars == <<stack, received, minted, tc, trap, last, exec_result, steps,
          dphase, deploy_item, prestate, purses, account_main_purse_balance,
          payment_purse_balance, payment_result, session_result, session_tc,
          deploy_result, protocol_data_store, state_roots, upgrade_result,
          db, txn, th, map_size, disk_map_size,
          history, trie_store, returned, last_commit, last_checkout,
          exec_request, results, metadata, versions, writers, grouping>>

----------------------------------------------------------------------------
(* Bounds of the model *)

MaxDeploys == 2
MaxDepth == 2
MaxKeys == 3
MaxMapSize == 3
MaxRoots == 2
MaxSteps == 4
MaxURefs == 1
WordBits == 3

----------------------------------------------------------------------------
(* AccessRights: a set of the flags READ, WRITE, ADD; `a & b` is the       *)
(* intersection of the flag sets.                                          *)

READ == {"R"}
WRITE == {"W"}
ADD == {"A"}
READ_ADD_WRITE == {"R", "A", "W"}

BitAnd(a, b) == a \cap b

is_readable(rights) == BitAnd(rights, READ) = READ
is_writeable(rights) == BitAnd(rights, WRITE) = WRITE
is_addable(rights) == BitAnd(rights, ADD) = ADD

(* Key *)
URef(a, r) == [tag |-> "URef", addr |-> a, rights |-> r]
Account(a) == [tag |-> "Account", addr |-> a, rights |-> {}]
Hash(a) == [tag |-> "Hash", addr |-> a, rights |-> {}]

EmptyMap == [x \in {} |-> {}]

(* Value: `keys` is the name -> Key map the value embeds. *)
Int32(n) == [tag |-> "Int32", n |-> n, keys |-> EmptyMap]
NamedKey(name, key) == [tag |-> "NamedKey", n |-> 0, keys |-> (name :> key)]
ContractValue(urefs) == [tag |-> "Contract", n |-> 0, keys |-> urefs]
AccountValue(urefs) == [tag |-> "Account", n |-> 0, keys |-> urefs]
None == [tag |-> "None", n |-> 0, keys |-> EmptyMap]
\* a byte buffer (Vec<u8>); Bytes(0) is the empty one
Bytes(n) == [tag |-> "ByteArray", n |-> n, keys |-> EmptyMap]

----------------------------------------------------------------------------
(* The fixture: one account, one stored contract, two URef cells.          *)

A1 == <<1>>
A2 == <<2>>
ACC == <<10>>
OTHER_ACC == <<11>>
H1 == <<20>>

AccountNamedKeys == (1 :> URef(A1, READ))
ContractNamedKeys == (1 :> URef(A2, READ_ADD_WRITE))

GlobalState ==
    (Account(ACC) :> AccountValue(AccountNamedKeys))
    @@ (Hash(H1) :> ContractValue(ContractNamedKeys))
    @@ (URef(A1, {}) :> Int32(1))
    @@ (URef(A2, {}) :> Int32(1))

U64_MAX == 2 ^ WordBits - 1
U32_MAX == 2 ^ (WordBits - 1) - 1
GasLimits == {1, U64_MAX}
GasAmounts == {0, 1, U32_MAX}
RightsChoices == {READ, READ_ADD_WRITE}


----------------------------------------------------------------------------
(* RuntimeContext: capability checks *)

NoKey == [tag |-> "None", addr |-> <<>>, rights |-> {}]
NoTrap == [kind |-> "none", wrapped |-> FALSE, urefs |-> <<>>]
\* an address generated by the invocation inv, and what its host call returned
Minted(inv, op, addr, res) == [inv |-> inv, op |-> op, addr |-> addr, res |-> res]
NoExec == [account_addr |-> <<>>, timestamp |-> 0, nonce |-> 0]
NoMinted == [deploy |-> NoExec, log |-> <<>>, inv |-> <<>>]
Raise(kind) == [kind |-> kind, wrapped |-> FALSE, urefs |-> <<>>]

\* Result::and
And(r1, r2) == IF r1 # "Ok" THEN r1 ELSE r2

validate_key_unchecked(known_urefs, key) == "Ok"

\* validate_key: the address must be in known_urefs; the outcome of the rights
\* comparison is computed and then dropped by `.map(|_| ())`.
validate_key(known_urefs, key) ==
    IF key.tag = "URef"
    THEN IF key.addr \in DOMAIN known_urefs
         THEN LET allowed == \E right \in known_urefs[key.addr] :
                                 BitAnd(right, key.rights) = key.rights
              IN  IF allowed THEN "Ok" ELSE "Ok"
         ELSE "ForgedReference"
    ELSE "Ok"

validate_keys(known_urefs, value) ==
    IF \A name \in DOMAIN value.keys : validate_key(known_urefs, value.keys[name]) = "Ok"
    THEN "Ok"
    ELSE "ForgedReference"

is_readable_key_any(ctx, key) ==
    CASE key.tag \in {"Account", "Hash"} -> TRUE
      [] OTHER -> is_readable(key.rights)
is_readable_key(ctx, key) ==
    CASE key.tag = "Account" -> ctx.base_key = key
      [] key.tag = "Hash" -> TRUE
      [] OTHER -> is_readable(key.rights)

is_addable_key(ctx, key) ==
    CASE key.tag \in {"Account", "Hash"} -> ctx.base_key = key
      [] OTHER -> is_addable(key.rights)

is_writeable_key(ctx, key) ==
    CASE key.tag \in {"Account", "Hash"} -> FALSE
      [] OTHER -> is_writeable(key.rights)

validate_readable(ctx, key) == IF is_readable_key(ctx, key) THEN "Ok" ELSE "InvalidAccess"
validated_addable(ctx, key) == IF is_addable_key(ctx, key) THEN "Ok" ELSE "InvalidAccess"
validated_writeable(ctx, key) == IF is_writeable_key(ctx, key) THEN "Ok" ELSE "InvalidAccess"

\* insert_uref
insert_uref(known_urefs, key) ==
    IF key.tag = "URef"
    THEN IF key.addr \in DOMAIN known_urefs
         THEN [known_urefs EXCEPT ![key.addr] = @ \cup {key.rights}]
         ELSE (key.addr :> {key.rights}) @@ known_urefs
    ELSE known_urefs

\* add_urefs: HashMap::extend replaces the entry of every address of urefs_map
add_urefs(known_urefs, urefs_map) == urefs_map @@ known_urefs

\* key_to_tuple and vec_key_rights_to_map: itertools' group_by groups runs of
\* consecutive equal addresses; collecting the groups into a HashMap keeps the
\* last group of an address.
key_to_tuple(keys) == SelectSeq(keys, LAMBDA k : k.tag = "URef")

RECURSIVE group_by(_, _)
group_by(tuples, n) ==
    IF n = 0 THEN EmptyMap
    ELSE LET m == group_by(tuples, n - 1)
             k == tuples[n]
         IN  IF n > 1 /\ tuples[n - 1].addr = k.addr
             THEN [m EXCEPT ![k.addr] = @ \cup {k.rights}]
             ELSE (k.addr :> {k.rights}) @@ m

vec_key_rights_to_map(input) ==
    LET tuples == key_to_tuple(input) IN group_by(tuples, Len(tuples))

\* BTreeMap::values(): the keys of a name -> Key map in ascending name order
RECURSIVE values_upto(_, _)
values_upto(lookup, n) ==
    IF n = 0 THEN <<>>
    ELSE values_upto(lookup, n - 1)
         \o (IF n \in DOMAIN lookup THEN <<lookup[n]>> ELSE <<>>)

Names == {1, 2}
values(lookup) == values_upto(lookup, Cardinality(Names))

----------------------------------------------------------------------------
(* TrackingCopy: the values written so far, layered over the global state. *)

normalize(key) == [key EXCEPT !.rights = {}]

tc_read_committed(t, key) ==
    LET k == normalize(key)
    IN  IF k \in DOMAIN GlobalState THEN GlobalState[k] ELSE None
tc_read(t, key) ==
    LET k == normalize(key)
    IN  IF k \in DOMAIN t THEN t[k]
        ELSE IF k \in DOMAIN GlobalState THEN GlobalState[k]
        ELSE None

tc_write(t, key, value) ==
    LET k == normalize(key)
    IN  IF k \in DOMAIN t THEN [t EXCEPT ![k] = value] ELSE (k :> value) @@ t

\* AddResult
tc_add_result(t, key, value) ==
    LET cur == tc_read(t, key)
    IN  CASE cur.tag = "None" -> "KeyNotFound"
          [] cur.tag = "Int32" /\ value.tag = "Int32" -> "Ok"
          [] cur.tag \in {"Account", "Contract"} /\ value.tag = "NamedKey" -> "Ok"
          [] OTHER -> "TypeMismatch"

tc_add(t, key, value) ==
    LET cur == tc_read(t, key)
    IN  IF tc_add_result(t, key, value) # "Ok" THEN t
        ELSE IF cur.tag = "Int32"
        THEN tc_write(t, key, Int32(cur.n + value.n))
        ELSE tc_write(t, key, [cur EXCEPT !.keys = value.keys @@ cur.keys])


----------------------------------------------------------------------------
(* Runtime and RuntimeContext *)

\* ChaChaRng: the seed and the number of 32-byte blocks drawn; the block drawn
\* at a position is a function of both.
\* VarBlake2b: a digest is its tagged input, so equal digests mean equal inputs
VarBlake2b(input) == <<0>> \o input
\* create_rng: `data` is assembled, and the digest is taken of a hasher that was
\* given no input
create_rng(account_addr, timestamp, nonce) ==
    LET data == account_addr \o <<timestamp, nonce>>
        hasher == <<>>
    IN  [seed |-> VarBlake2b(hasher), pos |-> 0]
fill_bytes(rng) == rng.seed \o <<rng.pos>>
advance(rng) == [rng EXCEPT !.pos = @ + 1]
\* ChaChaRng::from_rng(rng.clone()): seeded with the next block of a clone
from_rng(rng) == [seed |-> fill_bytes(rng), pos |-> 0]

\* Value::as_account: the account the deploy runs for
as_account(account_addr, value) == [pub_key |-> account_addr, nonce |-> value.n]

inc_fn_store_id_skipped(ctx) == ctx
inc_fn_store_id(ctx) == [ctx EXCEPT !.fn_store_id = @ + 1]

\* blake2b(pub_key ++ nonce ++ fn_store_id), a digest kept as its input
new_function_address(ctx) ==
    ctx.account.pub_key \o <<ctx.account.nonce, ctx.fn_store_id>>

Runtime(known_urefs, uref_lookup, account, base_key, gas_limit, gas_counter, fn_store_id, rng) ==
    [known_urefs |-> known_urefs, uref_lookup |-> uref_lookup, account |-> account,
     base_key |-> base_key,
     gas_limit |-> gas_limit, gas_counter |-> gas_counter,
     fn_store_id |-> fn_store_id, rng |-> rng,
     result |-> Bytes(0), host_buf |-> None]

Depth == Len(stack)
Top == stack[Depth]
Running == Depth > 0 /\ trap.kind = "none" /\ exec_result.status = "None"
CanCall == Running /\ steps < MaxSteps

uref_addrs(keys) == {keys[i].addr : i \in {j \in DOMAIN keys : keys[j].tag = "URef"}}

\* what a program can present to the host: any address it has seen used anywhere
AddrPool == {A1, A2} \cup UNION {DOMAIN stack[i].known_urefs : i \in 1..Depth}
ProgURefs == {URef(a, r) : a \in AddrPool, r \in RightsChoices}
StoredHashes == {k \in DOMAIN tc : k.tag = "Hash"}
ProgKeys == ProgURefs \cup {Account(ACC), Account(OTHER_ACC), Hash(H1)} \cup StoredHashes
EmbedKeys == {URef(a, READ_ADD_WRITE) : a \in AddrPool}
ProgValues == {Int32(1)} \cup {NamedKey(1, k) : k \in EmbedKeys}
ProgNamedKeys == {EmptyMap} \cup {(1 :> k) : k \in EmbedKeys}
KeySeqs == UNION {[1..n -> ProgURefs \cup {Hash(H1)}] : n \in 0..MaxURefs}
RetValues == {Bytes(7)}
\* the value and the urefs of a call are looked at only once its key has passed
\* the checks before them: up to there one value, one list stand for all
ValuesFor(checked) == IF checked = "Ok" THEN ProgValues ELSE {Int32(1)}
URefsFor(checked) == IF checked = "Ok" THEN KeySeqs ELSE {<<>>}

\* the host call returns: the innermost Runtime becomes rt, and an Err traps it
Returns(op, key, res, rt, t) ==
    /\ stack' = [stack EXCEPT ![Depth] = rt]
    /\ tc' = t
    /\ trap' = IF res = "Ok" THEN NoTrap ELSE Raise(res)
    /\ last' = [op |-> op, key |-> key, res |-> res, depth |-> Depth]
    /\ minted' = IF op \in {"new_uref", "store_function"}
                 THEN [minted EXCEPT !.log = Append(@, Minted(minted.inv[Depth], op, key.addr, res))]
                 ELSE minted
    /\ steps' = steps + 1
    /\ UNCHANGED <<exec_result, dvars>>

wrapping_add(a, b) == (a + b) % (U64_MAX + 1)

\* checked_add on u64; -1 stands for None
checked_add(a, b) == IF a + b > U64_MAX THEN -1 ELSE a + b

charge_gas(ctx, amount) ==
    LET val == checked_add(ctx.gas_counter, amount)
    IN  IF val = -1 THEN [ok |-> FALSE, ctx |-> ctx]
        ELSE IF val > ctx.gas_limit THEN [ok |-> FALSE, ctx |-> ctx]
        ELSE [ok |-> TRUE, ctx |-> [ctx EXCEPT !.gas_counter = val]]

gas(amount) ==
    /\ CanCall
    /\ LET r == charge_gas(Top, amount)
       IN  Returns("gas", NoKey, IF r.ok THEN "Ok" ELSE "GasLimit", r.ctx, tc)
    /\ UNCHANGED received

read_gs(ctx, key) == And(validate_readable(ctx, key), validate_key(ctx.known_urefs, key))

read(key) ==
    /\ CanCall
    /\ LET checked == read_gs(Top, key)
           value == tc_read(tc, key)
           res == IF checked # "Ok" THEN checked
                  ELSE IF value = None THEN "KeyNotFound" ELSE "Ok"
       IN  Returns("read", key, res,
                   IF res = "Ok" THEN [Top EXCEPT !.host_buf = value] ELSE Top, tc)
    /\ UNCHANGED received

write_gs(ctx, key, value) ==
    And(And(validated_writeable(ctx, key), validate_key(ctx.known_urefs, key)),
        validate_keys(ctx.known_urefs, value))

write(key, value) ==
    /\ CanCall
    /\ LET res == write_gs(Top, key, value)
       IN  Returns("write", key, res, Top,
                   IF res = "Ok" THEN tc_write(tc, key, value) ELSE tc)
    /\ UNCHANGED received

add_gs(ctx, t, key, value) ==
    And(And(And(validated_addable(ctx, key), validate_key(ctx.known_urefs, key)),
            validate_keys(ctx.known_urefs, value)),
        tc_add_result(t, key, value))

add(key, value) ==
    /\ CanCall
    /\ LET res == add_gs(Top, tc, key, value)
       IN  Returns("add", key, res, Top,
                   IF res = "Ok" THEN tc_add(tc, key, value) ELSE tc)
    /\ UNCHANGED received

\* new_uref: the URef is inserted into known_urefs before its value is written
new_uref(value) ==
    /\ CanCall
    /\ LET key == URef(fill_bytes(Top.rng), READ_ADD_WRITE)
           ctx == [Top EXCEPT !.rng = advance(@),
                              !.known_urefs = insert_uref(@, key)]
           res == write_gs(ctx, key, value)
       IN  /\ Returns("new_uref", key, res, ctx,
                      IF res = "Ok" THEN tc_write(tc, key, value) ELSE tc)
           /\ received' = [received EXCEPT ![Depth] = @ \cup {key.addr}]

get_uref(name) ==
    /\ CanCall
    /\ IF name \in DOMAIN Top.uref_lookup
       THEN Returns("get_uref", Top.uref_lookup[name], "Ok", Top, tc)
       ELSE Returns("get_uref", NoKey, "URefNotFound", Top, tc)
    /\ UNCHANGED received

\* add_uref: add_gs on the base key, then insert_named_uref
add_uref(name, key) ==
    /\ CanCall
    /\ LET res == add_gs(Top, tc, Top.base_key, NamedKey(name, key))
           ctx == [Top EXCEPT !.known_urefs = insert_uref(@, key),
                              !.uref_lookup = (name :> key) @@ @]
       IN  Returns("add_uref", key, res,
                   IF res = "Ok" THEN ctx ELSE Top,
                   IF res = "Ok" THEN tc_add(tc, Top.base_key, NamedKey(name, key)) ELSE tc)
    /\ UNCHANGED received

\* store_function -> store_contract: the address is drawn before the contract is validated
store_function(urefs) ==
    /\ CanCall
    /\ LET key == Hash(new_function_address(Top))
           ctx == inc_fn_store_id(Top)
           res == validate_keys(ctx.known_urefs, ContractValue(urefs))
       IN  Returns("store_function", key, res, ctx,
                   IF res = "Ok" THEN tc_write(tc, key, ContractValue(urefs)) ELSE tc)
    /\ UNCHANGED received

\* Key::Local: storage of the context, under a seed taken from its base key
Local(seed, key_bytes) == [tag |-> "Local", addr |-> seed \o key_bytes, rights |-> {}]

\* write_local: a Local key is always accessible; the value must validate
write_local(key_bytes, value) ==
    /\ CanCall
    /\ LET key == Local(Top.base_key.addr, key_bytes)
           res == validate_keys(Top.known_urefs, value)
       IN  Returns("write_local", key, res, Top,
                   IF res = "Ok" THEN tc_write(tc, key, value) ELSE tc)
    /\ UNCHANGED received

\* read_local: the value under the Local key, or None
read_local(key_bytes) ==
    /\ CanCall
    /\ LET key == Local(Top.base_key.addr, key_bytes)
       IN  Returns("read_local", key, "Ok", [Top EXCEPT !.host_buf = tc_read(tc, key)], tc)
    /\ UNCHANGED received

\* get_caller: the public key of the context's account
get_caller ==
    /\ CanCall
    /\ Returns("get_caller", Account(Top.account.pub_key), "Ok", Top, tc)
    /\ UNCHANGED received

\* deserialize_keys: every key must validate in the context
deserialize_keys(ctx, keys) ==
    IF \A i \in DOMAIN keys : validate_key(ctx.known_urefs, keys[i]) = "Ok"
    THEN "Ok"
    ELSE "ForgedReference"

\* call_contract: the contract under the key is read and type-checked
call_contract_load(ctx, t, key) ==
    LET checked == read_gs(ctx, key)
        value == tc_read(t, key)
    IN  IF checked # "Ok" THEN checked
        ELSE IF value = None THEN "KeyNotFound"
        ELSE IF value.tag # "Contract" THEN "FunctionNotFound"
        ELSE "Ok"

\* call_contract up to the call of sub_call
call_contract_check(ctx, t, key, extra_urefs) ==
    And(call_contract_load(ctx, t, key), deserialize_keys(ctx, extra_urefs))

sub_call_runtime_own_account(caller, refs, key, extra_urefs) ==
    Runtime(vec_key_rights_to_map(values(refs) \o extra_urefs), refs,
            [pub_key |-> key.addr, nonce |-> 0], key,
            caller.gas_limit, caller.gas_counter, caller.fn_store_id,
            from_rng(caller.rng))
\* sub_call: the Runtime of the callee
sub_call_runtime(caller, refs, key, extra_urefs) ==
    Runtime(vec_key_rights_to_map(values(refs) \o extra_urefs), refs, caller.account, key,
            caller.gas_limit, caller.gas_counter, caller.fn_store_id,
            from_rng(caller.rng))

call_contract(key, extra_urefs) ==
    /\ CanCall
    /\ LET res == call_contract_check(Top, tc, key, extra_urefs)
           refs == tc_read(tc, key).keys
       IN  IF res = "Ok"
           THEN /\ Depth < MaxDepth
                /\ stack' = Append(stack, sub_call_runtime(Top, refs, key, extra_urefs))
                /\ received' = Append(received, uref_addrs(values(refs) \o extra_urefs))
                /\ minted' = [minted EXCEPT !.inv = Append(@, steps + 1)]
                /\ last' = [op |-> "call_contract", key |-> key, res |-> "Ok", depth |-> Depth]
                /\ steps' = steps + 1
                /\ UNCHANGED <<tc, trap, exec_result, dvars>>
           ELSE /\ Returns("call_contract", key, res, Top, tc)
                /\ UNCHANGED received

\* ret: always a Trap; Error::Ret(urefs) when the urefs validate
ret(value, extra_urefs) ==
    /\ CanCall
    /\ LET res == deserialize_keys(Top, extra_urefs)
       IN  /\ stack' = [stack EXCEPT ![Depth] =
                            IF res = "Ok" THEN [@ EXCEPT !.result = value] ELSE @]
           /\ trap' = IF res = "Ok"
                      THEN [kind |-> "Ret", wrapped |-> FALSE, urefs |-> extra_urefs]
                      ELSE Raise(res)
           /\ last' = [op |-> "ret", key |-> NoKey, res |-> res, depth |-> Depth]
    /\ steps' = steps + 1
    /\ UNCHANGED <<received, minted, tc, exec_result, dvars>>

\* revert(status): Error::Revert(status), a Trap like any other host error
revert ==
    /\ CanCall
    /\ Returns("revert", NoKey, "Revert", Top, tc)
    /\ UNCHANGED received

IsRet == trap.kind = "Ret" /\ ~trap.wrapped

\* sub_call, Ok(_): the callee's `call` returned
sub_call_ok ==
    /\ Running /\ Depth > 1
    /\ stack' = [SubSeq(stack, 1, Depth - 1) EXCEPT ![Depth - 1].host_buf = Top.result]
    /\ received' = SubSeq(received, 1, Depth - 1)
    /\ minted' = [minted EXCEPT !.inv = SubSeq(@, 1, Depth - 1)]
    /\ last' = [op |-> "call_contract", key |-> NoKey, res |-> "Ok", depth |-> Depth - 1]
    /\ UNCHANGED <<tc, trap, exec_result, steps, dvars>>

\* sub_call, Err(e) with e the Trap of `ret`: merge the returned urefs
sub_call_ret ==
    /\ Depth > 1 /\ IsRet /\ exec_result.status = "None"
    /\ stack' = [SubSeq(stack, 1, Depth - 1) EXCEPT
                    ![Depth - 1].host_buf = Top.result,
                    ![Depth - 1].known_urefs =
                        add_urefs(@, vec_key_rights_to_map(trap.urefs))]
    /\ received' = [SubSeq(received, 1, Depth - 1) EXCEPT
                       ![Depth - 1] = @ \cup uref_addrs(trap.urefs)]
    /\ minted' = [minted EXCEPT !.inv = SubSeq(@, 1, Depth - 1)]
    /\ trap' = NoTrap
    /\ last' = [op |-> "call_contract", key |-> NoKey, res |-> "Ok", depth |-> Depth - 1]
    /\ UNCHANGED <<tc, exec_result, steps, dvars>>

\* sub_call, Err(e) otherwise: Err(Error::Interpreter(e)), which traps the caller
sub_call_err ==
    /\ Depth > 1 /\ trap.kind # "none" /\ ~IsRet /\ exec_result.status = "None"
    /\ stack' = SubSeq(stack, 1, Depth - 1)
    /\ received' = SubSeq(received, 1, Depth - 1)
    /\ minted' = [minted EXCEPT !.inv = SubSeq(@, 1, Depth - 1)]
    /\ trap' = [trap EXCEPT !.wrapped = TRUE]
    /\ last' = [op |-> "call_contract", key |-> NoKey, res |-> trap.kind, depth |-> Depth - 1]
    /\ UNCHANGED <<tc, exec_result, steps, dvars>>

NoResult == [status |-> "None", error |-> "none", effect |-> EmptyMap, cost |-> 0]

\* WasmiExecutor::exec: the outermost `call` returned
exec_ok ==
    /\ Running /\ Depth = 1
    /\ exec_result' = [status |-> "Ok", error |-> "none", effect |-> tc,
                       cost |-> Top.gas_counter]
    /\ UNCHANGED <<stack, received, minted, tc, trap, last, steps, dvars>>

exec_err_keeping_effect ==
    /\ Depth = 1 /\ trap.kind # "none" /\ exec_result.status = "None"
    /\ exec_result' = [status |-> "Err", error |-> trap.kind, effect |-> tc,
                       cost |-> Top.gas_counter]
    /\ UNCHANGED <<stack, received, minted, tc, trap, last, steps, dvars>>

\* WasmiExecutor::exec, on_fail_charge!: the outermost `call` trapped
exec_err ==
    /\ Depth = 1 /\ trap.kind # "none" /\ exec_result.status = "None"
    /\ exec_result' = [status |-> "Err", error |-> trap.kind, effect |-> EmptyMap,
                       cost |-> Top.gas_counter]
    /\ UNCHANGED <<stack, received, minted, tc, trap, last, steps, dvars>>

\* From<InterpreterError> for Error: what the interpreter returns, a Trap that
\* carries the host error, becomes Error::Interpreter
from_interpreter(host_error) == <<"Interpreter">> \o host_error

\* the host error the Trap carries: sub_call has wrapped the Trap of a callee
trap_host_error(t) == IF t.wrapped THEN from_interpreter(<<t.kind>>) ELSE <<t.kind>>

\* WasmiExecutor::exec, on_fail_charge!: Err(er.into())
exec_returned_error(t) == from_interpreter(trap_host_error(t))

\* From<(ExecutionError, ExecutionEffect, Gas)> for DeployResult: only the
\* variant GasLimit is an out-of-gas error; of an Interpreter error the host
\* error inside decides the message of an execution error
deploy_result_from(error) ==
    IF error = <<"GasLimit">>
    THEN [kind |-> "out_of_gas_error", message |-> <<>>]
    ELSE IF Head(error) = "Interpreter"
    THEN [kind |-> "execution_error", message |-> Tail(error)]
    ELSE [kind |-> "execution_error", message |-> error]

----------------------------------------------------------------------------
\* the store: threads sharing one environment, its database handles (MAX_DBS),
\* one key under each, and map sizes counted in entries
Threads == {1, 2}
Handles == {"a", "b"}
GROWTH_RATIO == 2
NoValue == "None"
EmptyDb == [handle \in Handles |-> NoValue]
NoTxn == [kind |-> "none", view |-> EmptyDb]
NoOperation == [pc |-> "idle", op |-> "none", items |-> <<>>, todo |-> <<>>, current_map_size |-> 0,
                result |-> NoValue]

\* no thread uses the environment
EnvironmentIdle ==
    /\ db = EmptyDb /\ txn = [t \in Threads |-> NoTxn]
    /\ th = [t \in Threads |-> NoOperation]
    /\ map_size = 1 /\ disk_map_size = 1

\* CommitResult and the result of a checkout, before any
NoCommit == [impl |-> "none", prestate_hash |-> <<>>, effects |-> EmptyMap,
             order |-> <<>>, result |-> "None", key |-> 0, hash |-> <<>>]
NoReader == [some |-> FALSE, view |-> <<>>]
NoCheckout == [impl |-> "none", hash |-> <<>>, reader |-> NoReader]

\* no contract metadata is built
NoMetadata == [access_key |-> <<>>, active_versions |-> EmptyMap, removed_versions |-> {}]
NoVersionResult == [op |-> "none", version |-> 0, result |-> "None"]
\* no thread of the resize test is spawned
NoWriter == [pc |-> "none", val |-> 0, map_size |-> 0, env_map_size |-> 0]
NoWriters == [th |-> [t \in Threads |-> NoWriter], lock |-> 0, keys |-> {},
              commits |-> [t \in Threads |-> 0]]

\* no keys are grouped
NoGrouping == [input |-> <<>>, output |-> EmptyMap, returned |-> FALSE]

MetadataIdle ==
    /\ metadata = NoMetadata
    /\ versions = [added |-> EmptyMap, last |-> NoVersionResult]
    /\ writers = NoWriters
    /\ grouping = NoGrouping

\* no global state is built
HistoryIdle ==
    /\ MetadataIdle
    /\ history = EmptyMap /\ trie_store = {}
    /\ returned = [inmem |-> EmptyMap, lmdb |-> EmptyMap]
    /\ last_commit = NoCommit /\ last_checkout = NoCheckout

\* ExecuteRequest and the results of run_execute, before any
NoRequest == [parent_state_hash |-> 0, protocol_version |-> <<0, 0>>, deploys |-> <<>>]
NoResults == [status |-> "None", list |-> <<>>]

\* no thread uses the store, no request is served
StoreIdle ==
    /\ EnvironmentIdle /\ HistoryIdle
    /\ exec_request = NoRequest /\ results = NoResults

NoPurses == [main |-> 0, payment |-> 0, rewards |-> 0]
NoDeploy == [authorization_keys |-> {}, prestate_hash |-> 0, protocol_version |-> <<0, 0>>,
             session_valid |-> FALSE, payment_valid |-> FALSE]
NoUpgradeResult == [status |-> "None", error |-> "none", effect |-> EmptyMap,
                    post_state_hash |-> 0]

\* no deploy is in the pipeline
PipelineIdle ==
    /\ dphase = "idle" /\ deploy_item = NoDeploy
    /\ prestate = NoPurses /\ purses = NoPurses
    /\ account_main_purse_balance = 0 /\ payment_purse_balance = 0
    /\ payment_result = NoResult /\ session_result = NoResult
    /\ session_tc = NoPurses
    /\ deploy_result = NoResult
    /\ protocol_data_store = EmptyMap /\ state_roots = {}
    /\ upgrade_result = NoUpgradeResult

DeployIdle == PipelineIdle /\ StoreIdle

\* WasmiExecutor::exec up to the invocation of `call`
exec_runtime(account_addr, timestamp, nonce, gas_limit) ==
    LET acct_key == Account(account_addr)
        account == as_account(account_addr, GlobalState[acct_key])
        uref_lookup_local == GlobalState[acct_key].keys
    IN  Runtime(vec_key_rights_to_map(values(uref_lookup_local)), uref_lookup_local,
                account, acct_key, gas_limit, 0, 0,
                create_rng(account_addr, timestamp, nonce))

\* the deploys of the fixture's account
Timestamps == {0, 1}
Nonces == {0, 1}

InitWith(limits, timestamps, nonces) ==
    /\ \E gas_limit \in limits, timestamp \in timestamps, nonce \in nonces :
           /\ stack = <<exec_runtime(ACC, timestamp, nonce, gas_limit)>>
           /\ minted = [deploy |-> [account_addr |-> ACC, timestamp |-> timestamp,
                                    nonce |-> nonce],
                        log |-> <<>>, inv |-> <<0>>]
    /\ received = <<uref_addrs(values(AccountNamedKeys))>>
    /\ tc = EmptyMap
    /\ trap = NoTrap
    /\ last = [op |-> "none", key |-> NoKey, res |-> "Ok", depth |-> 0]
    /\ exec_result = NoResult
    /\ steps = 0
    /\ DeployIdle

Init == InitWith({U64_MAX}, {0}, {0})

Next ==
    \/ \E key \in ProgKeys : read(key)
    \/ \E key \in ProgKeys :
           \E value \in ValuesFor(And(validated_writeable(Top, key),
                                      validate_key(Top.known_urefs, key))) :
               write(key, value)
    \/ \E key \in ProgKeys :
           \E value \in ValuesFor(And(validated_addable(Top, key),
                                      validate_key(Top.known_urefs, key))) :
               add(key, value)
    \/ \E value \in ProgValues : new_uref(value)
    \/ \E name \in Names : get_uref(name)
    \/ \E key \in ProgURefs : add_uref(2, key)
    \/ \E urefs \in ProgNamedKeys : store_function(urefs)
    \/ \E key \in ProgKeys :
           \E extra_urefs \in URefsFor(call_contract_load(Top, tc, key)) :
               call_contract(key, extra_urefs)
    \/ \E value \in RetValues, extra_urefs \in KeySeqs : ret(value, extra_urefs)
    \/ revert
    \/ sub_call_ok
    \/ sub_call_ret
    \/ sub_call_err
    \/ exec_ok
    \/ exec_err

Spec == Init /\ [][Next]_vars

(* The same machine driven by a metered program: gas, sub-calls and returns. *)
InitGas == InitWith(GasLimits, {0}, {0})

NextGas ==
    \/ \E amount \in GasAmounts : gas(amount)
    \/ \E extra_urefs \in KeySeqs : call_contract(Hash(H1), extra_urefs)
    \/ \E value \in RetValues : ret(value, <<>>)
    \/ revert
    \/ sub_call_ok
    \/ sub_call_ret
    \/ sub_call_err
    \/ exec_ok
    \/ exec_err

SpecGas == InitGas /\ [][NextGas]_vars

(* The same machine driven by a program that generates addresses: it mints   *)
(* URefs, stores functions and calls what it stored.                         *)
InitAddresses == InitWith({U64_MAX}, Timestamps, Nonces)

NextAddresses ==
    \/ new_uref(Int32(1))
    \/ store_function(EmptyMap)
    \/ \E key \in {Hash(H1)} \cup StoredHashes : call_contract(key, <<>>)
    \/ get_caller
    \/ \E value \in RetValues : ret(value, <<>>)
    \/ revert
    \/ sub_call_ok
    \/ sub_call_ret
    \/ sub_call_err
    \/ exec_ok
    \/ exec_err

SpecAddresses == InitAddresses /\ [][NextAddresses]_vars

(* The same machine driven by a program that writes and reads back: cells,   *)
(* stored contracts and its local storage.                                   *)
LocalKeys == {<<66>>}

NextState ==
    \/ \E key \in EmbedKeys, value \in ProgValues : write(key, value)
    \/ \E value \in ProgValues : new_uref(value)
    \/ \E urefs \in ProgNamedKeys : store_function(urefs)
    \/ \E key_bytes \in LocalKeys, value \in ProgValues : write_local(key_bytes, value)
    \/ \E key \in ProgKeys : read(key)
    \/ \E key_bytes \in LocalKeys : read_local(key_bytes)
    \/ \E key \in {Hash(H1)} \cup StoredHashes : call_contract(key, <<>>)
    \/ \E value \in RetValues : ret(value, <<>>)
    \/ sub_call_ok
    \/ sub_call_ret
    \/ sub_call_err
    \/ exec_ok
    \/ exec_err

SpecState == Init /\ [][NextState]_vars

----------------------------------------------------------------------------
(* EngineState::deploy: the payment, session and finalize pipeline of one   *)
(* deploy, over the balances of the account's main purse and of the         *)
(* proof-of-stake payment and rewards purses.                               *)

MAX_PAYMENT == 10000000
CONV_RATE == 10

\* Gas::from_motes and Motes::from_gas
from_motes(motes, conv_rate) == motes \div conv_rate
from_gas(gas_amount, conv_rate) == gas_amount * conv_rate

\* Transform
Write(value) == [op |-> "Write", value |-> value]
AddUInt512(value) == [op |-> "AddUInt512", value |-> value]

\* the balances after the transforms of an effect are applied to `balances`
apply_effect(balances, effect) ==
    [purse \in DOMAIN balances |->
        IF purse \notin DOMAIN effect THEN balances[purse]
        ELSE IF effect[purse].op = "Write" THEN effect[purse].value
        ELSE balances[purse] + effect[purse].value]

\* the transforms that take the balances `before` to the balances `after`
effect_of(before, after) ==
    LET changed == {purse \in DOMAIN before : before[purse] # after[purse]}
    IN  [purse \in changed |-> Write(after[purse])]

Success(effect, cost) ==
    [status |-> "Success", error |-> "none", effect |-> effect, cost |-> cost]
Failure(error, effect, cost) ==
    [status |-> "Failure", error |-> error, effect |-> effect, cost |-> cost]

\* ExecutionResult::precondition_failure
precondition_failure(error) == Failure(error, EmptyMap, 0)

check_forced_transfer_failure_only(result, balance) ==
    IF result.status = "Failure" THEN "PaymentFailure" ELSE "None"

\* ExecutionResult::check_forced_transfer; "None" stands for Option::None
check_forced_transfer(result, balance) ==
    IF result.status = "Failure" THEN "PaymentFailure"
    ELSE IF balance < from_gas(result.cost, CONV_RATE) THEN "InsufficientPayment"
    ELSE "None"

\* ExecutionResult::new_payment_code_error
new_payment_code_error(error, max_payment_cost, main_purse_balance) ==
    Failure(error,
            [purse \in {"main", "rewards"} |->
                IF purse = "main" THEN Write(main_purse_balance - max_payment_cost)
                ELSE AddUInt512(max_payment_cost)],
            from_motes(max_payment_cost, CONV_RATE))

\* what the deploys of the model carry and find
MainBalances == {MAX_PAYMENT - 1, MAX_PAYMENT, MAX_PAYMENT + CONV_RATE}
RewardsBalances == {0, CONV_RATE}
PaidAmounts == {0, CONV_RATE, CONV_RATE + 1, MAX_PAYMENT}
GasCosts == {0, 1, from_motes(MAX_PAYMENT, CONV_RATE)}
ExecErrors == {"GasLimit", "Revert"}
SessionTransfers == {0, 1}

Returned(result) == /\ dphase' = "done" /\ deploy_result' = result

minimum_balance_in_gas(main_purse_balance, max_payment_cost) ==
    IF main_purse_balance < from_motes(max_payment_cost, CONV_RATE)
    THEN "InsufficientPayment"
    ELSE "Ok"

\* validation_spec_5: the account's main purse holds at least max_payment_cost
minimum_balance(main_purse_balance, max_payment_cost) ==
    IF main_purse_balance < max_payment_cost
    THEN "InsufficientPayment"
    ELSE "Ok"

\* the account of the deploys: two associated keys of weight 1, and a
\* deployment threshold that takes both
associated_keys == ("K1" :> 1) @@ ("K2" :> 1)
deployment_threshold == 2

\* Account::can_authorize
can_authorize(authorization_keys) == authorization_keys \subseteq DOMAIN associated_keys

RECURSIVE calculate_keys_weight(_)
calculate_keys_weight(authorization_keys) ==
    IF authorization_keys = {} THEN 0
    ELSE LET key == CHOOSE k \in authorization_keys : TRUE
         IN  (IF key \in DOMAIN associated_keys THEN associated_keys[key] ELSE 0)
                 + calculate_keys_weight(authorization_keys \ {key})

\* Account::can_deploy_with
can_deploy_with(authorization_keys) ==
    calculate_keys_weight(authorization_keys) >= deployment_threshold

authorize_keys_only(authorization_keys) ==
    IF ~can_authorize(authorization_keys) THEN "Authorization" ELSE "Ok"

\* validation_spec_3 and validation_spec_4: the authorization keys are associated
\* with the account, and their weights reach the deployment threshold
authorize(authorization_keys) ==
    IF ~can_authorize(authorization_keys) THEN "Authorization"
    ELSE IF ~can_deploy_with(authorization_keys) THEN "DeploymentAuthorizationFailure"
    ELSE "Ok"

\* Err(RootNotFound) of deploy
RootNotFound == [status |-> "RootNotFound", error |-> "RootNotFound",
                 effect |-> EmptyMap, cost |-> 0]

\* deploy, from the checkout of the tracking copy to the balance floor
deploy_validate ==
    /\ dphase = "start"
    /\ LET balance == purses.main
           authorized == authorize(deploy_item.authorization_keys)
       IN  IF deploy_item.prestate_hash \notin state_roots
           THEN Returned(RootNotFound) /\ UNCHANGED account_main_purse_balance
           ELSE IF authorized # "Ok"
           THEN /\ Returned(precondition_failure(authorized))
                /\ UNCHANGED account_main_purse_balance
           ELSE IF ~deploy_item.session_valid
           THEN /\ Returned(precondition_failure("WasmPreprocessing"))
                /\ UNCHANGED account_main_purse_balance
           ELSE IF deploy_item.protocol_version \notin DOMAIN protocol_data_store
           THEN /\ Returned(precondition_failure("InvalidProtocolVersion"))
                /\ UNCHANGED account_main_purse_balance
           ELSE /\ account_main_purse_balance' = balance
                /\ IF minimum_balance(balance, MAX_PAYMENT) # "Ok"
                   THEN Returned(precondition_failure(
                                     minimum_balance(balance, MAX_PAYMENT)))
                   ELSE dphase' = "payment" /\ UNCHANGED deploy_result
    /\ UNCHANGED <<rvars, pvars, deploy_item, prestate, purses, payment_purse_balance,
                   payment_result, session_result, session_tc>>

after_payment_ignoring_failure(result, balance, main_purse_balance) ==
    IF result.status = "Success" /\ check_forced_transfer(result, balance) # "None"
    THEN [dphase |-> "done",
          deploy_result |-> new_payment_code_error("InsufficientPayment", MAX_PAYMENT,
                                                   main_purse_balance)]
    ELSE [dphase |-> "session", deploy_result |-> NoResult]

\* payment_code_spec_3: the forced transfer, or on to the session code
after_payment(result, balance, main_purse_balance) ==
    LET forced_transfer == check_forced_transfer(result, balance)
        error == IF forced_transfer = "InsufficientPayment" THEN "InsufficientPayment"
                 ELSE result.error
    IN  IF forced_transfer # "None"
        THEN [dphase |-> "done",
              deploy_result |-> new_payment_code_error(error, MAX_PAYMENT,
                                                       main_purse_balance)]
        ELSE [dphase |-> "session", deploy_result |-> NoResult]

\* deploy, from the payment module to the check of what the payment code paid
deploy_payment(status, error, cost, paid) ==
    /\ dphase = "payment"
    /\ IF ~deploy_item.payment_valid
       THEN /\ Returned(precondition_failure("WasmPreprocessing"))
            /\ UNCHANGED <<purses, payment_purse_balance, payment_result>>
       ELSE /\ cost <= from_motes(MAX_PAYMENT, CONV_RATE)
            /\ paid <= purses.main
            /\ LET paid_purses == [purses EXCEPT !.main = @ - paid, !.payment = @ + paid]
                   result == IF status = "Success"
                             THEN Success(effect_of(purses, paid_purses), cost)
                             ELSE Failure(error, EmptyMap, cost)
                   next == after_payment(result, paid_purses.payment,
                                         account_main_purse_balance)
               IN  /\ purses' = paid_purses
                   /\ payment_result' = result
                   /\ payment_purse_balance' = paid_purses.payment
                   /\ dphase' = next.dphase
                   /\ deploy_result' = next.deploy_result
    /\ UNCHANGED <<rvars, pvars, deploy_item, prestate, account_main_purse_balance,
                   session_result, session_tc>>

\* the tracking copy finalize starts from, were a failed session's fork kept
post_session_keeping_fork(result, post_payment_tc, fork) == fork

\* the tracking copy finalize starts from: the session's fork, or the
\* post-payment state again if the session code failed
post_session(result, post_payment_tc, fork) ==
    IF result.status = "Failure" THEN post_payment_tc ELSE fork

session_gas_limit_before_payment == from_motes(payment_purse_balance, CONV_RATE)

\* session_code_spec_1: gas limit = ((balance of PoS payment purse) / conv_rate)
\* - (gas spent during payment execution)
session_gas_limit == from_motes(payment_purse_balance, CONV_RATE) - payment_result.cost

\* deploy, session_code_spec_1..3: the session code runs on a fork of the
\* post-payment tracking copy, which is kept only if the session succeeds
deploy_session(status, error, cost, transferred) ==
    /\ dphase = "session"
    /\ LET fork == [purses EXCEPT !.main = @ - transferred]
           result == IF status = "Success"
                     THEN Success(effect_of(purses, fork), cost)
                     ELSE Failure(error, EmptyMap, cost)
       IN  /\ cost <= session_gas_limit
           /\ transferred <= purses.main
           /\ session_tc' = fork
           /\ session_result' = result
           /\ purses' = post_session(result, purses, fork)
    /\ dphase' = "finalize"
    /\ UNCHANGED <<rvars, pvars, deploy_item, prestate, account_main_purse_balance,
                   payment_purse_balance, payment_result, deploy_result>>

\* ExecutionResultBuilder::total_cost
total_cost == payment_result.cost + session_result.cost

finalize_cost_in_gas == total_cost

\* ((gas spent during payment) + (gas spent during session)) * conv_rate
finalize_cost_motes == from_gas(total_cost, CONV_RATE)

\* the proof-of-stake contract's finalize_payment: the cost goes from the payment
\* purse to the rewards purse, the remainder back to the account
finalize_payment(balances, amount_spent) ==
    [balances EXCEPT !.rewards = @ + amount_spent,
                     !.main = @ + (balances.payment - amount_spent),
                     !.payment = 0]

\* ExecutionResultBuilder::build
build(finalize_ok, finalized_purses) ==
    IF ~finalize_ok THEN precondition_failure("Finalization")
    ELSE IF session_result.status = "Failure"
    THEN Failure(session_result.error, effect_of(prestate, finalized_purses), total_cost)
    ELSE Success(effect_of(prestate, finalized_purses), total_cost)

\* deploy, payment_code_spec_5 and 6: finalize, then the combined result; the
\* proof-of-stake contract is looked up again in the tracking copy first
deploy_finalize(contract_found, finalize_ok) ==
    /\ dphase = "finalize"
    /\ LET finalized_purses == finalize_payment(purses, finalize_cost_motes)
       IN  IF ~contract_found
           THEN /\ purses' = purses
                /\ Returned(precondition_failure("KeyNotFound"))
           ELSE /\ purses' = IF finalize_ok THEN finalized_purses ELSE purses
                /\ Returned(build(finalize_ok, finalized_purses))
    /\ UNCHANGED <<rvars, pvars, deploy_item, prestate, account_main_purse_balance,
                   payment_purse_balance, payment_result, session_result,
                   session_tc>>

\* what the requests of the model carry: sets of authorization keys, prestate
\* hashes, and protocol versions as <<major, minor>>
AuthorizationKeySets == {{"K1"}, {"K1", "K2"}, {"K3"}, {"K1", "K2", "K3"}}
StateHashes == {0, 1}
DeployVersions == {<<1, 0>>, <<1, 1>>}
ProtocolVersions == {<<1, 0>>, <<1, 1>>, <<2, 0>>}
WasmCosts == {"None", "new_costs"}
InstallerBytes == {"None", "Valid", "Invalid"}

\* ProtocolData::new, with the system contracts left out
ProtocolData(wasm_costs) == [wasm_costs |-> wasm_costs]

\* ProtocolVersion::check_next_version
check_next_version(current, new) ==
    IF new[1] = current[1] + 1 /\ new[2] = 0 THEN "CodeIsRequired"
    ELSE IF new[1] = current[1] /\ new[2] > current[2] THEN "Valid"
    ELSE "Invalid"

\* LmdbGlobalState::put_protocol_data: one committed read-write transaction
put_protocol_data(store, protocol_version, protocol_data) ==
    (protocol_version :> protocol_data) @@ store

\* what the upgrade installer leaves in its tracking copy
installer_effect(new_protocol_version) ==
    [contract \in {"mint"} |-> Write(new_protocol_version[1])]

\* the root hash a commit of `effects` on top of `pre_state_hash` yields
commit(pre_state_hash, effects) ==
    IF effects = EmptyMap THEN pre_state_hash ELSE pre_state_hash + 1

UpgradeError(error) ==
    [status |-> "Err", error |-> error, effect |-> EmptyMap, post_state_hash |-> 0]
UpgradeSuccess(post_state_hash, effect) ==
    [status |-> "Success", error |-> "none", effect |-> effect,
     post_state_hash |-> post_state_hash]

\* commit_upgrade: the installer is optional except on major version upgrades
installer_never_missing(upgrade_check_result, bytes) == FALSE
installer_missing(upgrade_check_result, bytes) ==
    bytes = "None" /\ upgrade_check_result = "CodeIsRequired"

\* EngineState::commit_upgrade
commit_upgrade(upgrade_config) ==
    /\ dphase = "start" /\ upgrade_result = NoUpgradeResult
    /\ LET pre_state_hash == upgrade_config.pre_state_hash
           current_protocol_version == upgrade_config.current_protocol_version
           new_protocol_version == upgrade_config.new_protocol_version
           upgrade_check_result == check_next_version(current_protocol_version,
                                                      new_protocol_version)
           new_wasm_costs ==
               IF upgrade_config.wasm_costs # "None" THEN upgrade_config.wasm_costs
               ELSE protocol_data_store[current_protocol_version].wasm_costs
           bytes == upgrade_config.upgrade_installer_bytes
           effects == IF bytes = "None" THEN EmptyMap
                      ELSE installer_effect(new_protocol_version)
           post_state_hash == commit(pre_state_hash, effects)
       IN  IF pre_state_hash \notin state_roots
           THEN /\ upgrade_result' = [NoUpgradeResult EXCEPT !.status = "RootNotFound",
                                                             !.error = "RootNotFound"]
                /\ UNCHANGED <<protocol_data_store, state_roots>>
           ELSE IF current_protocol_version \notin DOMAIN protocol_data_store
                   \/ upgrade_check_result = "Invalid"
           THEN /\ upgrade_result' = UpgradeError("InvalidProtocolVersion")
                /\ UNCHANGED <<protocol_data_store, state_roots>>
           ELSE /\ protocol_data_store' =
                       put_protocol_data(protocol_data_store, new_protocol_version,
                                         ProtocolData(new_wasm_costs))
                /\ IF installer_missing(upgrade_check_result, bytes)
                   THEN /\ upgrade_result' = UpgradeError("InvalidUpgradeConfig")
                        /\ UNCHANGED state_roots
                   ELSE IF bytes = "Invalid"
                   THEN /\ upgrade_result' = UpgradeError("WasmPreprocessing")
                        /\ UNCHANGED state_roots
                   ELSE /\ upgrade_result' = UpgradeSuccess(post_state_hash, effects)
                        /\ state_roots' = state_roots \cup {post_state_hash}
    /\ UNCHANGED <<rvars, svars, dphase, deploy_item, prestate, purses,
                   account_main_purse_balance, payment_purse_balance, payment_result,
                   session_result, session_tc, deploy_result>>

ExecOutcomes == {<<"Success", "none">>} \cup {<<"Failure", error>> : error \in ExecErrors}

InitDeploy ==
    /\ stack = <<>> /\ received = <<>> /\ minted = NoMinted /\ tc = EmptyMap /\ trap = NoTrap
    /\ last = [op |-> "none", key |-> NoKey, res |-> "Ok", depth |-> 0]
    /\ exec_result = NoResult /\ steps = 0
    /\ dphase = "start"
    /\ deploy_item \in [authorization_keys : AuthorizationKeySets,
                         prestate_hash : StateHashes,
                         protocol_version : DeployVersions,
                         session_valid : BOOLEAN, payment_valid : BOOLEAN]
    /\ \E main \in MainBalances, rewards \in RewardsBalances :
           prestate = [main |-> main, payment |-> 0, rewards |-> rewards]
    /\ purses = prestate
    /\ account_main_purse_balance = 0 /\ payment_purse_balance = 0
    /\ payment_result = NoResult /\ session_result = NoResult
    /\ session_tc = NoPurses
    /\ deploy_result = NoResult
    /\ protocol_data_store = (<<1, 0>> :> ProtocolData("genesis_costs"))
    /\ state_roots = {0}
    /\ upgrade_result = NoUpgradeResult
    /\ StoreIdle

NextDeploy ==
    \/ deploy_validate
    \/ \E outcome \in ExecOutcomes, cost \in GasCosts, paid \in PaidAmounts :
           deploy_payment(outcome[1], outcome[2], cost, paid)
    \/ \E outcome \in ExecOutcomes, cost \in GasCosts, transferred \in SessionTransfers :
           deploy_session(outcome[1], outcome[2], cost, transferred)
    \/ \E contract_found, finalize_ok \in BOOLEAN :
           deploy_finalize(contract_found, finalize_ok)

SpecDeploy == InitDeploy /\ [][NextDeploy]_vars

\* the engine serving an upgrade and a deploy
UpgradeConfigs ==
    [pre_state_hash : StateHashes, current_protocol_version : DeployVersions,
     new_protocol_version : ProtocolVersions, wasm_costs : WasmCosts,
     upgrade_installer_bytes : InstallerBytes]

NextEngine ==
    \/ NextDeploy
    \/ \E upgrade_config \in UpgradeConfigs : commit_upgrade(upgrade_config)

SpecEngine == InitDeploy /\ [][NextEngine]_vars

----------------------------------------------------------------------------
(* EngineState::run_execute: the deploys of one ExecuteRequest, one after    *)
(* the other, each through EngineState::deploy                               *)

\* the deploys of the requests of the model: `ok` is FALSE for a deploy the
\* request carries as Err(exec_result)
BatchItems ==
    {[ok |-> TRUE, authorization_keys |-> {"K1", "K2"}, session_valid |-> TRUE],
     [ok |-> TRUE, authorization_keys |-> {"K3"}, session_valid |-> TRUE],
     [ok |-> FALSE, authorization_keys |-> {}, session_valid |-> FALSE]}

ExecuteRequests ==
    [parent_state_hash : StateHashes, protocol_version : {<<1, 0>>},
     deploys : UNION {[1..n -> BatchItems] : n \in 1..MaxDeploys}]

\* the exec_result of a deploy carried as Err(exec_result)
InvalidDeployItem == precondition_failure("InvalidDeployItem")

\* the tracking copy a deploy starts from, were the deploys of a batch chained
tracking_copy_chained(parent_state, tracking_copy) ==
    IF tracking_copy = NoPurses THEN parent_state ELSE tracking_copy

\* EngineState::tracking_copy(prestate_hash): a new TrackingCopy over the
\* reader checked out at the parent state hash
tracking_copy(parent_state, previous) == parent_state

\* run_execute, the loop: the next deploy of the request is handed to deploy,
\* or its exec_result is pushed
run_execute_deploy ==
    /\ dphase = "idle" /\ results.status = "None" /\ exec_request.deploys # <<>>
    /\ LET item == Head(exec_request.deploys)
       IN  /\ exec_request' = [exec_request EXCEPT !.deploys = Tail(@)]
           /\ IF item.ok
              THEN /\ dphase' = "start"
                   /\ deploy_item' = [authorization_keys |-> item.authorization_keys,
                                      prestate_hash |-> exec_request.parent_state_hash,
                                      protocol_version |-> exec_request.protocol_version,
                                      session_valid |-> item.session_valid,
                                      payment_valid |-> TRUE]
                   /\ purses' = tracking_copy(prestate, purses)
                   /\ account_main_purse_balance' = 0 /\ payment_purse_balance' = 0
                   /\ payment_result' = NoResult /\ session_result' = NoResult
                   /\ session_tc' = NoPurses /\ deploy_result' = NoResult
                   /\ UNCHANGED results
              ELSE /\ results' = [results EXCEPT !.list = Append(@, InvalidDeployItem)]
                   /\ UNCHANGED <<dphase, deploy_item, purses, account_main_purse_balance,
                                  payment_purse_balance, payment_result, session_result,
                                  session_tc, deploy_result>>
    /\ UNCHANGED <<rvars, prestate, protocol_data_store, state_roots, upgrade_result,
                   db, txn, th, map_size, disk_map_size, hvars>>

\* run_execute, the match on what deploy returned: the result is pushed, or
\* Err(RootNotFound) is returned in place of all results
run_execute_push ==
    /\ dphase = "done" /\ results.status = "None"
    /\ dphase' = "idle"
    /\ results' = IF deploy_result.status = "RootNotFound"
                  THEN [status |-> "RootNotFound", list |-> <<>>]
                  ELSE [results EXCEPT !.list = Append(@, deploy_result)]
    /\ UNCHANGED <<rvars, deploy_item, prestate, purses, account_main_purse_balance,
                   payment_purse_balance, payment_result, session_result, session_tc,
                   deploy_result, protocol_data_store, state_roots, upgrade_result,
                   exec_request, db, txn, th, map_size, disk_map_size, hvars>>

\* run_execute, Ok(results)
run_execute_return ==
    /\ dphase = "idle" /\ results.status = "None" /\ exec_request.deploys = <<>>
    /\ results' = [results EXCEPT !.status = "Ok"]
    /\ UNCHANGED <<rvars, dphase, deploy_item, prestate, purses,
                   account_main_purse_balance, payment_purse_balance, payment_result,
                   session_result, session_tc, deploy_result, protocol_data_store,
                   state_roots, upgrade_result, exec_request,
                   db, txn, th, map_size, disk_map_size, hvars>>

InitBatch ==
    /\ stack = <<>> /\ received = <<>> /\ minted = NoMinted /\ tc = EmptyMap /\ trap = NoTrap
    /\ last = [op |-> "none", key |-> NoKey, res |-> "Ok", depth |-> 0]
    /\ exec_result = NoResult /\ steps = 0
    /\ dphase = "idle" /\ deploy_item = NoDeploy
    /\ \E main \in MainBalances, rewards \in RewardsBalances :
           prestate = [main |-> main, payment |-> 0, rewards |-> rewards]
    /\ purses = NoPurses
    /\ account_main_purse_balance = 0 /\ payment_purse_balance = 0
    /\ payment_result = NoResult /\ session_result = NoResult
    /\ session_tc = NoPurses
    /\ deploy_result = NoResult
    /\ protocol_data_store = (<<1, 0>> :> ProtocolData("genesis_costs"))
    /\ state_roots = {0}
    /\ upgrade_result = NoUpgradeResult
    /\ EnvironmentIdle /\ HistoryIdle
    /\ exec_request \in ExecuteRequests
    /\ results = NoResults

NextBatch ==
    \/ run_execute_deploy
    \/ NextDeploy
    \/ run_execute_push
    \/ run_execute_return

SpecBatch == InitBatch /\ [][NextBatch]_vars

----------------------------------------------------------------------------
(* The transactional store: transaction_source/lmdb.rs, store/mod.rs and the *)
(* retry loops of global_state/lmdb.rs and of the trie store tests           *)

\* the entries a transaction's view of the store holds
used(view) == Cardinality({handle \in Handles : view[handle] # NoValue})

\* the operations of the global state that read
ReadOperations == {"read", "get_protocol_data"}

\* what the operations of the model put, in order: the handles they write to
ItemLists == {<<>>, <<"a">>, <<"b">>, <<"a", "b">>}

\* create_retried_txn: on MapResized the map size of the file is adopted before
\* the transaction is begun again
create_retried_txn(size, disk_size) == IF disk_size > size THEN disk_size ELSE size

\* the execution engine takes no step
EngineIdle ==
    UNCHANGED <<rvars, dphase, deploy_item, prestate, purses,
                   account_main_purse_balance, payment_purse_balance, payment_result,
                   session_result, session_tc, deploy_result, protocol_data_store,
                   state_roots, upgrade_result, bvars>>

\* the store takes no step
StoreUnchanged == UNCHANGED <<db, txn, th, map_size, disk_map_size>>

\* a step of thread `t` on the store
StoreStep(t) ==
    /\ \A u \in Threads \ {t} : txn'[u] = txn[u] /\ th'[u] = th[u]
    /\ EngineIdle
    /\ UNCHANGED hvars

\* TransactionSource::create_read_txn, as the first statement of the loop of a
\* reading operation `op`; a retried operation starts over
create_read_txn(t, op) ==
    /\ th[t].pc \in {"idle", "retry"}
    /\ th[t].pc = "retry" => op = th[t].op
    /\ map_size' = create_retried_txn(map_size, disk_map_size)
    /\ txn' = [txn EXCEPT ![t] = [kind |-> "ro", view |-> db]]
    /\ th' = [th EXCEPT ![t].pc = "ro", ![t].op = op]
    /\ UNCHANGED <<db, disk_map_size>>
    /\ StoreStep(t)

create_read_write_txn_unlocked(t, items) ==
    /\ th[t].pc \in {"idle", "retry"}
    /\ th[t].pc = "retry" => th[t].op = "commit" /\ items = th[t].items
    /\ map_size' = create_retried_txn(map_size, disk_map_size)
    /\ txn' = [txn EXCEPT ![t] = [kind |-> "rw", view |-> db]]
    /\ th' = [th EXCEPT ![t].pc = "rw", ![t].op = "commit", ![t].items = items,
                         ![t].todo = items]
    /\ UNCHANGED <<db, disk_map_size>>
    /\ StoreStep(t)

\* TransactionSource::create_read_write_txn: begins once no other read-write
\* transaction is open; a retried operation starts over with all of its items
create_read_write_txn(t, items) ==
    /\ th[t].pc \in {"idle", "retry"}
    /\ th[t].pc = "retry" => th[t].op = "commit" /\ items = th[t].items
    /\ \A u \in Threads : txn[u].kind # "rw"
    /\ map_size' = create_retried_txn(map_size, disk_map_size)
    /\ txn' = [txn EXCEPT ![t] = [kind |-> "rw", view |-> db]]
    /\ th' = [th EXCEPT ![t].pc = "rw", ![t].op = "commit", ![t].items = items,
                         ![t].todo = items]
    /\ UNCHANGED <<db, disk_map_size>>
    /\ StoreStep(t)

txn_read_latest(transaction, handle) == db[handle]

\* Readable::read: the value under the handle as the transaction sees it
txn_read(transaction, handle) == transaction.view[handle]

\* Store::get: the value read, or the error the operations that read match on
store_get(t, handle, map_full) ==
    /\ th[t].pc \in {"ro", "rw"}
    /\ map_full => th[t].pc = "ro" /\ map_size < MaxMapSize
    /\ th' = IF map_full
             THEN [th EXCEPT ![t].pc = "map_full"]
             ELSE [th EXCEPT ![t].result = txn_read(txn[t], handle)]
    /\ UNCHANGED <<db, txn, map_size, disk_map_size>>
    /\ StoreStep(t)

store_put_through(t) ==
    /\ th[t].pc = "rw" /\ th[t].todo # <<>>
    /\ LET handle == Head(th[t].todo)
           view == [txn[t].view EXCEPT ![handle] = "leaf"]
       IN  IF used(view) > map_size
           THEN /\ th' = [th EXCEPT ![t].pc = "map_full"]
                /\ UNCHANGED <<db, txn>>
           ELSE /\ txn' = [txn EXCEPT ![t].view = view]
                /\ db' = [db EXCEPT ![handle] = "leaf"]
                /\ th' = [th EXCEPT ![t].todo = Tail(@)]
    /\ UNCHANGED <<map_size, disk_map_size>>
    /\ StoreStep(t)

\* Store::put, Writable::write: the next item of the operation goes into the
\* transaction, or the map is full
store_put(t) ==
    /\ th[t].pc = "rw" /\ th[t].todo # <<>>
    /\ LET handle == Head(th[t].todo)
           view == [txn[t].view EXCEPT ![handle] = "leaf"]
       IN  IF used(view) > map_size
           THEN /\ th' = [th EXCEPT ![t].pc = "map_full"]
                /\ UNCHANGED txn
           ELSE /\ txn' = [txn EXCEPT ![t].view = view]
                /\ th' = [th EXCEPT ![t].todo = Tail(@)]
    /\ UNCHANGED <<db, map_size, disk_map_size>>
    /\ StoreStep(t)

\* Transaction::commit: of a read transaction, or of a read-write transaction
\* after the puts of its operation; the operations match on MapFull from either
txn_commit(t, map_full) ==
    /\ \/ th[t].pc = "ro"
       \/ th[t].pc = "rw" /\ th[t].todo = <<>>
    /\ map_full => map_size < MaxMapSize
    /\ txn' = [txn EXCEPT ![t] = NoTxn]
    /\ IF map_full
       THEN /\ th' = [th EXCEPT ![t].pc = "grow_map_size"]
            /\ UNCHANGED <<db, disk_map_size>>
       ELSE /\ th' = [th EXCEPT ![t] = NoOperation]
            /\ db' = IF th[t].pc = "rw" THEN txn[t].view ELSE db
            /\ disk_map_size' = IF th[t].pc = "rw" /\ map_size > disk_map_size
                                THEN map_size ELSE disk_map_size
    /\ UNCHANGED map_size
    /\ StoreStep(t)

\* Transaction::abort, also when a transaction is dropped: after MapFull the
\* thread goes on to grow the map, otherwise its operation is over
txn_abort(t) ==
    /\ th[t].pc \in {"ro", "rw", "map_full"}
    /\ th[t].pc = "map_full" => th[t].op # "get_protocol_data"
    /\ txn' = [txn EXCEPT ![t] = NoTxn]
    /\ th' = [th EXCEPT ![t] = IF th[t].pc = "map_full"
                               THEN [@ EXCEPT !.pc = "grow_map_size"]
                               ELSE NoOperation]
    /\ UNCHANGED <<db, map_size, disk_map_size>>
    /\ StoreStep(t)

\* grow_map_size, first statement: EnvironmentExt::get_map_size; the MapFull
\* arm of get_protocol_data calls it without aborting first
get_map_size(t) ==
    /\ \/ th[t].pc = "grow_map_size"
       \/ th[t].pc = "map_full" /\ th[t].op = "get_protocol_data"
    /\ th' = [th EXCEPT ![t].pc = "set_map_size", ![t].current_map_size = map_size]
    /\ UNCHANGED <<db, txn, map_size, disk_map_size>>
    /\ StoreStep(t)

\* grow_map_size, second statement: EnvironmentExt::set_map_size; the operation
\* is retried next (`continue`, where get_protocol_data drops the transaction
\* its MapFull arm has not aborted)
set_map_size(t) ==
    /\ th[t].pc = "set_map_size"
    /\ map_size' = th[t].current_map_size * GROWTH_RATIO
    /\ th' = [th EXCEPT ![t].pc = "retry"]
    /\ txn' = [txn EXCEPT ![t] = NoTxn]
    /\ UNCHANGED <<db, disk_map_size>>
    /\ StoreStep(t)

\* another process grows the map of the environment's file
map_resized ==
    /\ disk_map_size < MaxMapSize
    /\ disk_map_size' = disk_map_size * GROWTH_RATIO
    /\ UNCHANGED <<db, txn, th, map_size, hvars>>
    /\ EngineIdle

InitStore ==
    /\ stack = <<>> /\ received = <<>> /\ minted = NoMinted /\ tc = EmptyMap /\ trap = NoTrap
    /\ last = [op |-> "none", key |-> NoKey, res |-> "Ok", depth |-> 0]
    /\ exec_result = NoResult /\ steps = 0
    /\ DeployIdle

NextStore ==
    \/ \E t \in Threads, op \in ReadOperations : create_read_txn(t, op)
    \/ \E t \in Threads, items \in ItemLists : create_read_write_txn(t, items)
    \/ \E t \in Threads, handle \in Handles, map_full \in BOOLEAN :
           store_get(t, handle, map_full)
    \/ \E t \in Threads : store_put(t)
    \/ \E t \in Threads, map_full \in BOOLEAN : txn_commit(t, map_full)
    \/ \E t \in Threads : txn_abort(t)
    \/ \E t \in Threads : get_map_size(t)
    \/ \E t \in Threads : set_map_size(t)
    \/ map_resized

SpecStore == InitStore /\ [][NextStore]_vars

----------------------------------------------------------------------------
(* The resize test of engine-shared/src/lmdb_ext.rs: should_resize_map      *)
(* spawns threads that each open their own environment on one file and put  *)
(* their values under the resize-retry loop; map sizes count entries         *)

\* 1024 * 1024 bytes, the size of one test_val
DEFAULT_MAP_SIZE == 1

\* the commits counted per thread: one, or more than one
MaxCommits == 2

\* test_key: the value, with the thread's number as the first byte
test_key(thread_no, val) == <<thread_no, val>>

\* mdb_env_set_mapsize: zero adopts the size persisted in the file, and a size
\* below the data stored is raised to it
env_set_map_size(size, disk_size, keys) ==
    IF size = 0 THEN disk_size
    ELSE IF size < Cardinality(keys) THEN Cardinality(keys)
    ELSE size

\* a step of the resize test leaves the engine and the stores alone
WritersStep ==
    /\ EngineIdle
    /\ UNCHANGED <<db, txn, th, map_size, history, trie_store, returned, last_commit,
                   last_checkout, metadata, versions, grouping>>

\* test_thread, up to the loops: the thread opens its environment
test_open(t) ==
    /\ writers.th[t].pc = "none"
    /\ writers' = [writers EXCEPT !.th[t] =
                       [pc |-> "begin", val |-> 0, map_size |-> DEFAULT_MAP_SIZE,
                        env_map_size |-> env_set_map_size(DEFAULT_MAP_SIZE, disk_map_size,
                                                          writers.keys)]]
    /\ UNCHANGED disk_map_size
    /\ WritersStep

\* test_thread, env.begin_rw_txn(): waits for the writer lock; MapResized when
\* the file's map has outgrown the environment's
test_begin_rw_txn(t) ==
    /\ writers.th[t].pc = "begin"
    /\ writers.lock = 0
    /\ writers' = IF disk_map_size > writers.th[t].env_map_size
                  THEN [writers EXCEPT !.th[t].pc = "map_resized"]
                  ELSE [writers EXCEPT !.th[t].pc = "put", !.lock = t]
    /\ UNCHANGED disk_map_size
    /\ WritersStep

\* test_thread, the MapResized arm: env.set_map_size(0), then `continue`
test_map_resized(t) ==
    /\ writers.th[t].pc = "map_resized"
    /\ writers' = [writers EXCEPT !.th[t].pc = "begin",
                                  !.th[t].env_map_size =
                                      env_set_map_size(0, disk_map_size, writers.keys)]
    /\ UNCHANGED disk_map_size
    /\ WritersStep

\* test_thread, txn.put(db, &test_key, &test_val): MapFull when the entry does
\* not fit in the environment's map
test_put(t) ==
    /\ writers.th[t].pc = "put"
    /\ LET key == test_key(t, writers.th[t].val)
       IN  writers' = IF Cardinality(writers.keys \cup {key}) > writers.th[t].env_map_size
                      THEN [writers EXCEPT !.th[t].pc = "map_full"]
                      ELSE [writers EXCEPT !.th[t].pc = "commit"]
    /\ UNCHANGED disk_map_size
    /\ WritersStep

\* test_thread, the arm `Ok(_) => txn.commit().unwrap()`: the entry and the
\* environment's map size are persisted, and the body of `for i in 1..` ends,
\* so its next iteration begins a transaction for the same value
test_commit(t) ==
    /\ writers.th[t].pc = "commit"
    /\ writers' = [writers EXCEPT
                       !.th[t].pc = "begin",
                       !.lock = 0,
                       !.keys = @ \cup {test_key(t, writers.th[t].val)},
                       !.commits[t] = IF @ < MaxCommits THEN @ + 1 ELSE @]
    /\ disk_map_size' = IF writers.th[t].env_map_size > disk_map_size
                        THEN writers.th[t].env_map_size ELSE disk_map_size
    /\ WritersStep

\* test_thread, the MapFull arm: txn.abort(), map_size *= 2,
\* env.set_map_size(map_size), then `continue`
test_map_full(t) ==
    /\ writers.th[t].pc = "map_full"
    /\ LET map_size_doubled == writers.th[t].map_size * 2
       IN  writers' = [writers EXCEPT
                          !.th[t].pc = "begin",
                          !.lock = 0,
                          !.th[t].map_size = map_size_doubled,
                          !.th[t].env_map_size =
                              env_set_map_size(map_size_doubled, disk_map_size,
                                               writers.keys)]
    /\ UNCHANGED disk_map_size
    /\ WritersStep

\* the steps of one thread of should_resize_map
test_thread(t) ==
    \/ test_open(t)
    \/ test_begin_rw_txn(t)
    \/ test_map_resized(t)
    \/ test_put(t)
    \/ test_commit(t)
    \/ test_map_full(t)

InitWriters ==
    /\ stack = <<>> /\ received = <<>> /\ minted = NoMinted /\ tc = EmptyMap /\ trap = NoTrap
    /\ last = [op |-> "none", key |-> NoKey, res |-> "Ok", depth |-> 0]
    /\ exec_result = NoResult /\ steps = 0
    /\ DeployIdle

NextWriters == \E t \in Threads : test_thread(t)

\* every spawned thread is scheduled, and the writer lock is handed to each
\* thread that keeps asking for it
FairWriters == \A t \in Threads : SF_vars(test_thread(t))

SpecWriters == InitWriters /\ [][NextWriters]_vars /\ FairWriters


----------------------------------------------------------------------------
(* vec_key_rights_to_map on the lists of keys that sub_call hands it: the   *)
(* named keys of the contract chained with the extra urefs, or the urefs of *)
(* a ret                                                                     *)

\* the keys of the lists: URefs of two addresses and a key that is no URef
GroupedKeys == {URef(a, r) : a \in {A1, A2}, r \in {READ, WRITE}} \cup {Hash(H1)}
KeyLists == UNION {[1..n -> GroupedKeys] : n \in 0..MaxKeys}

\* sub_call: let known_urefs = vec_key_rights_to_map(...)
sub_call_known_urefs ==
    /\ ~grouping.returned
    /\ grouping' = [grouping EXCEPT !.output = vec_key_rights_to_map(grouping.input),
                                    !.returned = TRUE]
    /\ EngineIdle /\ StoreUnchanged
    /\ UNCHANGED <<history, trie_store, returned, last_commit, last_checkout, metadata,
                   versions, writers>>

InitKeys ==
    /\ stack = <<>> /\ received = <<>> /\ minted = NoMinted /\ tc = EmptyMap /\ trap = NoTrap
    /\ last = [op |-> "none", key |-> NoKey, res |-> "Ok", depth |-> 0]
    /\ exec_result = NoResult /\ steps = 0
    /\ PipelineIdle /\ EnvironmentIdle
    /\ exec_request = NoRequest /\ results = NoResults
    /\ history = EmptyMap /\ trie_store = {}
    /\ returned = [inmem |-> EmptyMap, lmdb |-> EmptyMap]
    /\ last_commit = NoCommit /\ last_checkout = NoCheckout
    /\ metadata = NoMetadata
    /\ versions = [added |-> EmptyMap, last |-> NoVersionResult]
    /\ writers = NoWriters
    /\ \E input \in KeyLists : grouping = [NoGrouping EXCEPT !.input = input]

NextKeys == sub_call_known_urefs

SpecKeys == InitKeys /\ [][NextKeys]_vars

----------------------------------------------------------------------------
(* The global state and its history: InMemHist (storage/src/global_state/    *)
(* inmem.rs), a map from root hash to state, and LmdbGlobalState             *)
(* (engine-storage/src/global_state/lmdb.rs), tries in a content-addressed   *)
(* store. A hash is modelled by the bytes it is the hash of, bytes by a      *)
(* sequence of numbers.                                                      *)

Keys == {1, 2}
I32_MAX == 2 ^ (WordBits - 1) - 1

\* the roots a caller can name besides those it was given: [0u8; 32], which
\* the tests give the initial state of an InMemHist, and [1u8; 32]
EMPTY_ROOT_HASH == <<0>>
MISSING_ROOT == <<1>>

Blake2bHash(data) == data

\* Transform
AddInt32(value) == [op |-> "AddInt32", value |-> value]

\* Transform::apply to a current Int32 value
transform_apply(transform, curr) ==
    IF transform.op = "Write" THEN [error |-> "none", value |-> transform.value]
    ELSE IF curr + transform.value > I32_MAX THEN [error |-> "Overflow", value |-> curr]
    ELSE [error |-> "none", value |-> curr + transform.value]

\* InMemHist::get_root_hash: the hash of the bytes of the keys and values of
\* the BTreeMap in ascending key order
RECURSIVE root_data(_, _)
root_data(state, n) ==
    IF n = 0 THEN <<>>
    ELSE root_data(state, n - 1)
         \o (IF n \in DOMAIN state THEN <<n, state[n]>> ELSE <<>>)

get_root_hash(state) == Blake2bHash(root_data(state, Cardinality(Keys)))

\* the orders in which a HashMap of effects can be iterated
Orders(effects) ==
    {order \in [1..Cardinality(DOMAIN effects) -> DOMAIN effects] :
        \A i, j \in DOMAIN order : order[i] = order[j] => i = j}

\* the ascending order of the keys of the effects
RECURSIVE ascending(_, _)
ascending(effects, n) ==
    IF n = 0 THEN <<>>
    ELSE ascending(effects, n - 1) \o (IF n \in DOMAIN effects THEN <<n>> ELSE <<>>)

\* InMemHist::commit, the loop over the effects in the order of the iterator
RECURSIVE inmem_apply(_, _, _)
inmem_apply(base, effects, order) ==
    IF order = <<>> THEN [result |-> "Success", key |-> 0, base |-> base]
    ELSE LET k == Head(order)
             t == effects[k]
         IN  IF k \notin DOMAIN base
             THEN IF t.op = "Write"
                  THEN inmem_apply((k :> t.value) @@ base, effects, Tail(order))
                  ELSE [result |-> "KeyNotFound", key |-> k, base |-> base]
             ELSE LET applied == transform_apply(t, base[k])
                  IN  IF applied.error = "none"
                      THEN inmem_apply([base EXCEPT ![k] = applied.value], effects,
                                       Tail(order))
                      ELSE [result |-> applied.error, key |-> 0, base |-> base]

inmem_commit_in_place(hist, prestate_hash, effects, order) ==
    IF prestate_hash \notin DOMAIN hist
    THEN [result |-> "RootNotFound", key |-> 0, hash |-> <<>>, history |-> hist]
    ELSE LET applied == inmem_apply(hist[prestate_hash], effects, order)
             hash == get_root_hash(applied.base)
         IN  IF applied.result = "Success"
             THEN [result |-> "Success", key |-> 0, hash |-> hash,
                   history |-> (hash :> applied.base)
                                   @@ [hist EXCEPT ![prestate_hash] = applied.base]]
             ELSE [result |-> applied.result, key |-> applied.key, hash |-> <<>>,
                   history |-> hist]

\* InMemHist::commit: the CommitResult and the history it leaves
inmem_commit(hist, prestate_hash, effects, order) ==
    IF prestate_hash \notin DOMAIN hist
    THEN [result |-> "RootNotFound", key |-> 0, hash |-> <<>>, history |-> hist]
    ELSE LET applied == inmem_apply(hist[prestate_hash], effects, order)
             hash == get_root_hash(applied.base)
         IN  IF applied.result = "Success"
             THEN [result |-> "Success", key |-> 0, hash |-> hash,
                   history |-> (hash :> applied.base) @@ hist]
             ELSE [result |-> applied.result, key |-> applied.key, hash |-> <<>>,
                   history |-> hist]

\* InMemHist::checkout: the InMemGS under the hash, if any
inmem_checkout(hist, prestate_hash) ==
    IF prestate_hash \in DOMAIN hist
    THEN [some |-> TRUE, view |-> hist[prestate_hash]]
    ELSE NoReader

\* StateReader::read of InMemGS: 0 stands for Option::None
inmem_read(gs, k) == IF k \in DOMAIN gs THEN gs[k] ELSE 0

\* Trie nodes in their serialized form: a Leaf is <<1, key, value>>; a Node is
\* <<2>> followed by one pointer per key, the hash of the key's Leaf or
\* <<0, 0, 0>> where there is none
Leaf(k, value) == <<1, k, value>>
NoPointer == <<0, 0, 0>>

RECURSIVE pointers(_, _)
pointers(state, n) ==
    IF n = 0 THEN <<>>
    ELSE pointers(state, n - 1)
         \o (IF n \in DOMAIN state THEN Blake2bHash(Leaf(n, state[n])) ELSE NoPointer)

Node(state) == <<2>> \o pointers(state, Cardinality(Keys))

\* create_hashed_empty_trie
empty_trie == Node(EmptyMap)

\* the pointer of a Node for key k
pointer(node, k) == SubSeq(node, 3 * k - 1, 3 * k + 1)

\* the key -> value map a Node holds
node_state(node) ==
    [k \in {key \in Keys : pointer(node, key) # NoPointer} |-> pointer(node, k)[3]]

\* trie_store::operations::read from the trie stored under `root`; 0 stands
\* for NotFound
trie_read(store, root, k) ==
    IF root \notin store THEN "RootNotFound"
    ELSE IF Head(root) = 1 THEN (IF root[2] = k THEN root[3] ELSE 0)
    ELSE IF pointer(root, k) = NoPointer THEN 0
    ELSE pointer(root, k)[3]

\* trie_store::operations::write: the store with the new Leaf and the
\* rewritten root
trie_write(store, root, k, value) ==
    LET new_root == Node((k :> value) @@ node_state(root))
    IN  [root |-> Blake2bHash(new_root),
         store |-> store \cup {Blake2bHash(Leaf(k, value)), Blake2bHash(new_root)}]

\* global_state::commit, the loop over the effects: each write yields a new root
RECURSIVE lmdb_apply(_, _, _, _)
lmdb_apply(store, root, effects, order) ==
    IF order = <<>> THEN [result |-> "Success", key |-> 0, root |-> root, store |-> store]
    ELSE LET k == Head(order)
             t == effects[k]
             curr == trie_read(store, root, k)
         IN  IF curr = 0
             THEN IF t.op = "Write"
                  THEN LET written == trie_write(store, root, k, t.value)
                       IN  lmdb_apply(written.store, written.root, effects, Tail(order))
                  ELSE [result |-> "KeyNotFound", key |-> k, root |-> root, store |-> store]
             ELSE LET applied == transform_apply(t, curr)
                      written == trie_write(store, root, k, applied.value)
                  IN  IF applied.error = "none"
                      THEN lmdb_apply(written.store, written.root, effects, Tail(order))
                      ELSE [result |-> applied.error, key |-> 0, root |-> root,
                            store |-> store]

\* LmdbGlobalState::commit: the CommitResult and the trie store it leaves; only
\* a successful commit commits its transaction
lmdb_commit(store, prestate_hash, effects, order) ==
    IF prestate_hash \notin store
    THEN [result |-> "RootNotFound", key |-> 0, hash |-> <<>>, store |-> store]
    ELSE LET applied == lmdb_apply(store, prestate_hash, effects, order)
         IN  IF applied.result = "Success"
             THEN [result |-> "Success", key |-> 0, hash |-> applied.root,
                   store |-> applied.store]
             ELSE [result |-> applied.result, key |-> applied.key, hash |-> <<>>,
                   store |-> store]

\* LmdbGlobalState::checkout: a view at state_hash when the trie store holds a
\* trie under it
lmdb_checkout(store, state_hash) ==
    IF state_hash \in store THEN [some |-> TRUE, view |-> state_hash] ELSE NoReader

\* StateReader::read of LmdbGlobalStateView: 0 stands for Option::None
lmdb_read(store, view, k) == trie_read(store, view, k)

\* what the callers of the model use
InitStates == {EmptyMap, (1 :> 1)}
Transforms == {Write(1), AddInt32(1)}
Effects == UNION {[keys -> Transforms] : keys \in SUBSET Keys}
Hashes(hist, store) == DOMAIN hist \cup store \cup {EMPTY_ROOT_HASH, MISSING_ROOT}

\* a caller is built over one implementation of the global state
Uses(impl) == last_commit.impl \in {"none", impl} /\ last_checkout.impl \in {"none", impl}

\* History::commit on the InMemHist
InMemHist_commit(prestate_hash, effects, order) ==
    /\ Uses("inmem")
    /\ Cardinality(DOMAIN history) <= MaxRoots
    /\ LET committed == inmem_commit(history, prestate_hash, effects, order)
       IN  /\ history' = committed.history
           /\ last_commit' = [impl |-> "inmem", prestate_hash |-> prestate_hash,
                              effects |-> effects, order |-> order,
                              result |-> committed.result, key |-> committed.key,
                              hash |-> committed.hash]
           /\ returned' = IF committed.result = "Success"
                          THEN [returned EXCEPT !.inmem =
                                    (committed.hash :> committed.history[committed.hash]) @@ @]
                          ELSE returned
    /\ UNCHANGED <<trie_store, last_checkout, mvars>>
    /\ EngineIdle /\ StoreUnchanged

\* History::checkout on the InMemHist
InMemHist_checkout(prestate_hash) ==
    /\ Uses("inmem")
    /\ last_checkout' = [impl |-> "inmem", hash |-> prestate_hash,
                         reader |-> inmem_checkout(history, prestate_hash)]
    /\ UNCHANGED <<history, trie_store, returned, last_commit, mvars>>
    /\ EngineIdle /\ StoreUnchanged

\* StateProvider::commit on the LmdbGlobalState
LmdbGlobalState_commit(prestate_hash, effects, order) ==
    /\ Uses("lmdb")
    /\ Cardinality(DOMAIN returned.lmdb) <= MaxRoots
    /\ prestate_hash \in DOMAIN returned.lmdb \cup {MISSING_ROOT}
    /\ LET committed == lmdb_commit(trie_store, prestate_hash, effects, order)
       IN  /\ trie_store' = committed.store
           /\ last_commit' = [impl |-> "lmdb", prestate_hash |-> prestate_hash,
                              effects |-> effects, order |-> order,
                              result |-> committed.result, key |-> committed.key,
                              hash |-> committed.hash]
           /\ returned' = IF committed.result = "Success"
                          THEN [returned EXCEPT !.lmdb =
                                    (committed.hash :> node_state(committed.hash)) @@ @]
                          ELSE returned
    /\ UNCHANGED <<history, last_checkout, mvars>>
    /\ EngineIdle /\ StoreUnchanged

\* StateProvider::checkout on the LmdbGlobalState
LmdbGlobalState_checkout(state_hash) ==
    /\ Uses("lmdb")
    /\ last_checkout' = [impl |-> "lmdb", hash |-> state_hash,
                         reader |-> lmdb_checkout(trie_store, state_hash)]
    /\ UNCHANGED <<history, trie_store, returned, last_commit, mvars>>
    /\ EngineIdle /\ StoreUnchanged

\* InMemHist::new_initialized and LmdbGlobalState::empty
InitHistory ==
    /\ stack = <<>> /\ received = <<>> /\ minted = NoMinted /\ tc = EmptyMap /\ trap = NoTrap
    /\ last = [op |-> "none", key |-> NoKey, res |-> "Ok", depth |-> 0]
    /\ exec_result = NoResult /\ steps = 0
    /\ PipelineIdle /\ EnvironmentIdle
    /\ exec_request = NoRequest /\ results = NoResults
    /\ history \in {(EMPTY_ROOT_HASH :> init_state) : init_state \in InitStates}
    /\ trie_store = {Blake2bHash(empty_trie)}
    /\ returned = [inmem |-> history, lmdb |-> (Blake2bHash(empty_trie) :> EmptyMap)]
    /\ last_commit = NoCommit /\ last_checkout = NoCheckout
    /\ MetadataIdle

NextHistory ==
    \/ \E prestate_hash \in Hashes(history, {}), effects \in Effects :
           \E order \in Orders(effects) : InMemHist_commit(prestate_hash, effects, order)
    \/ \E prestate_hash \in Hashes(history, {}) : InMemHist_checkout(prestate_hash)
    \/ \E prestate_hash \in Hashes(EmptyMap, trie_store), effects \in Effects :
           \E order \in Orders(effects) :
               LmdbGlobalState_commit(prestate_hash, effects, order)
    \/ \E state_hash \in Hashes(EmptyMap, trie_store) : LmdbGlobalState_checkout(state_hash)

SpecHistory == InitHistory /\ [][NextHistory]_vars

----------------------------------------------------------------------------
(* ContractMetadata: the versions of one contract *)

SemVers == {1, 2, 3}
ContractHeaders == {"header_a", "header_b"}

\* ContractMetadata::new
new_metadata(access_key) ==
    [access_key |-> access_key, active_versions |-> EmptyMap, removed_versions |-> {}]

\* ContractMetadata::with_version
with_version_unless_active(md, version, header) ==
    IF version \in DOMAIN md.active_versions
    THEN [result |-> "PreviouslyUsedVersion", metadata |-> md]
    ELSE [result |-> "Ok",
          metadata |-> [md EXCEPT !.active_versions = (version :> header) @@ @]]
with_version(md, version, header) ==
    IF version \in md.removed_versions \/ version \in DOMAIN md.active_versions
    THEN [result |-> "PreviouslyUsedVersion", metadata |-> md]
    ELSE [result |-> "Ok",
          metadata |-> [md EXCEPT !.active_versions = (version :> header) @@ @]]

\* ContractMetadata::remove_version
remove_version(md, version) ==
    IF version \in md.removed_versions
    THEN [result |-> "Ok", metadata |-> md]
    ELSE IF version \notin DOMAIN md.active_versions
    THEN [result |-> "VersionNotFound", metadata |-> md]
    ELSE [result |-> "Ok",
          metadata |->
              [md EXCEPT !.active_versions =
                             [v \in DOMAIN @ \ {version} |-> @[v]],
                         !.removed_versions = @ \cup {version}]]

\* nothing but the metadata changes
MetadataStep ==
    /\ EngineIdle /\ StoreUnchanged
    /\ UNCHANGED <<history, trie_store, returned, last_commit, last_checkout, writers,
                   grouping>>

ContractMetadata_with_version(version, header) ==
    /\ LET r == with_version(metadata, version, header)
       IN  /\ metadata' = r.metadata
           /\ versions' =
                  [added |-> IF r.result = "Ok"
                             THEN (version :> header) @@ versions.added
                             ELSE versions.added,
                   last |-> [op |-> "with_version", version |-> version,
                             result |-> r.result]]
    /\ MetadataStep

ContractMetadata_remove_version(version) ==
    /\ LET r == remove_version(metadata, version)
       IN  /\ metadata' = r.metadata
           /\ versions' = [versions EXCEPT !.last =
                               [op |-> "remove_version", version |-> version,
                                result |-> r.result]]
    /\ MetadataStep

InitVersions ==
    /\ stack = <<>> /\ received = <<>> /\ minted = NoMinted /\ tc = EmptyMap /\ trap = NoTrap
    /\ last = [op |-> "none", key |-> NoKey, res |-> "Ok", depth |-> 0]
    /\ exec_result = NoResult /\ steps = 0
    /\ PipelineIdle /\ EnvironmentIdle
    /\ exec_request = NoRequest /\ results = NoResults
    /\ history = EmptyMap /\ trie_store = {}
    /\ returned = [inmem |-> EmptyMap, lmdb |-> EmptyMap]
    /\ last_commit = NoCommit /\ last_checkout = NoCheckout
    /\ metadata = new_metadata(A1)
    /\ versions = [added |-> EmptyMap, last |-> NoVersionResult]
    /\ writers = NoWriters
    /\ grouping = NoGrouping

NextVersions ==
    \/ \E version \in SemVers, header \in ContractHeaders :
           ContractMetadata_with_version(version, header)
    \/ \E version \in SemVers : ContractMetadata_remove_version(version)

SpecVersions == InitVersions /\ [][NextVersions]_vars

----------------------------------------------------------------------------
(* Properties of the capability checks, sub-calls and gas metering *)

\* the last host call was a read, write or add on a URef
IsAccess == last.op \in {"read", "write", "add"} /\ last.key.tag = "URef"

\* known_urefs holds for the key's address a rights value with every right of the key
Granted(known_urefs, key) ==
    /\ key.addr \in DOMAIN known_urefs
    /\ \E granted \in known_urefs[key.addr] : key.rights \subseteq granted

\* C1: a read, write or add on URef(addr, required) is accepted only if
\* known_urefs holds for addr a granted rights value that includes every right
\* in required.
C1_AccessNeedsGrantedRights ==
    (IsAccess /\ last.res = "Ok") => Granted(stack[last.depth].known_urefs, last.key)

\* the right the operation needs is among the rights the key itself carries
KeyCarriesRight ==
    CASE last.op = "read" -> is_readable(last.key.rights)
      [] last.op = "write" -> is_writeable(last.key.rights)
      [] last.op = "add" -> is_addable(last.key.rights)
      [] OTHER -> FALSE

Unreceived == IsAccess /\ last.key.addr \notin received[last.depth]

\* C2 as stated: every read, write or add on a URef whose address the Runtime
\* never received from the host returns ForgedReference.
C2_UnreceivedIsForgedReference == Unreceived => last.res = "ForgedReference"

\* C2, amended: a read, write or add on a URef whose address the Runtime never
\* received never succeeds: it fails with InvalidAccess when the key's own
\* rights lack the right the operation needs, and with ForgedReference otherwise.
C2_CapabilitySoundness ==
    Unreceived =>
        last.res = (IF KeyCarriesRight THEN "ForgedReference" ELSE "InvalidAccess")

C2_Witness ==
    /\ Unreceived /\ last.res = "ForgedReference"
    /\ \E i \in 1..Depth : i # last.depth /\ last.key.addr \in DOMAIN stack[i].known_urefs

\* the value the last host call stored under its key
StoredValue == tc[normalize(last.key)]

\* C3: a value written, or stored as a contract, is accepted only if every URef
\* it embeds validates: is granted, with its rights, in the context.
C3_EmbeddedURefsValidate ==
    (last.op \in {"write", "new_uref", "store_function"} /\ last.res = "Ok") =>
        \A name \in DOMAIN StoredValue.keys :
            StoredValue.keys[name].tag = "URef" =>
                Granted(stack[last.depth].known_urefs, StoredValue.keys[name])

\* a callee, or the outermost call, ended in a Trap that is not the callee's ret
Trapped == trap.kind # "none" /\ ~(IsRet /\ Depth > 1)

\* C4: once a callee has trapped (a host error, a revert, an exceeded gas limit)
\* the caller makes no further host call, so it observes none of the callee's
\* writes or adds, the Trap unwinds every caller, and the effects the execution
\* returns hold none of them.
C4_TrapDiscardsEffects ==
    [][Trapped => /\ steps' = steps
                  /\ tc' = tc
                  /\ trap'.kind = trap.kind
                  /\ Len(stack') <= Len(stack)
                  /\ exec_result'.effect = EmptyMap]_vars

\* the callee wrote its cell A2 and then trapped; the execution has returned
C4_Witness ==
    /\ exec_result.status = "Err" /\ trap.wrapped
    /\ URef(A2, {}) \in DOMAIN tc
    /\ exec_result.effect = EmptyMap

\* C5: when a sub-call ends, however it ends, the caller's gas counter includes
\* the gas the callee consumed.
C5_CallerAbsorbsCalleeGas ==
    [][(Depth > 1 /\ Len(stack') = Depth - 1) =>
           stack'[Depth - 1].gas_counter >= Top.gas_counter]_vars

\* call_contract has just started the callee
JustCalled ==
    /\ last.op = "call_contract" /\ last.key.tag = "Hash" /\ last.res = "Ok"
    /\ Depth = last.depth + 1

\* C6: the callee runs only if every key of extra_urefs validates in the caller:
\* what the callee holds beyond the contract's own named keys, the caller held.
C6_ExtraURefsHeldByCaller ==
    JustCalled =>
        \A a \in DOMAIN Top.known_urefs : \A r \in Top.known_urefs[a] :
            \/ \E name \in DOMAIN Top.uref_lookup : Top.uref_lookup[name] = URef(a, r)
            \/ Granted(stack[Depth - 1].known_urefs, URef(a, r))

\* C7: the URefs that ret hands to the caller all validate in the callee: a URef
\* the callee does not hold with its rights is never merged into the caller.
C7_ReturnedURefsHeldByCallee ==
    (IsRet /\ Depth > 1) =>
        \A i \in DOMAIN trap.urefs :
            trap.urefs[i].tag = "URef" => Granted(Top.known_urefs, trap.urefs[i])

\* C8: gas(n) adds n to the counter when counter + n <= gas_limit; otherwise,
\* also when the sum overflows, it traps with GasLimit and leaves the counter
\* unchanged; no counter ever exceeds its gas_limit.
C8_GasMetering ==
    [][/\ \A amount \in GasAmounts :
              gas(amount) =>
                  IF Top.gas_counter + amount <= Top.gas_limit
                  THEN /\ stack'[Depth].gas_counter = Top.gas_counter + amount
                       /\ trap'.kind = "none"
                  ELSE /\ stack'[Depth].gas_counter = Top.gas_counter
                       /\ trap'.kind = "GasLimit"
       /\ \A i \in DOMAIN stack' : stack'[i].gas_counter <= stack'[i].gas_limit]_vars

\* gas trapped although the limit is the largest u64: the sum overflowed
C8_Witness ==
    /\ last.op = "gas" /\ last.res = "GasLimit"
    /\ stack[last.depth].gas_limit = U64_MAX
    /\ stack[last.depth].gas_counter > 0

----------------------------------------------------------------------------
(* Properties of the deploy pipeline *)

\* the payment code ran and either failed or left less in the payment purse
\* than its cost
PaymentNotMade ==
    /\ payment_result.status # "None"
    /\ \/ payment_result.status = "Failure"
       \/ payment_purse_balance < payment_result.cost * CONV_RATE

ReachesBalanceFloor ==
    /\ authorize(deploy_item.authorization_keys) = "Ok"
    /\ deploy_item.session_valid
    /\ deploy_item.protocol_version \in DOMAIN protocol_data_store

SessionFailed ==
    /\ dphase = "done" /\ session_result.status = "Failure"
    /\ deploy_result.error \notin {"Finalization", "KeyNotFound"}

\* the motes charged for the gas the payment and the session code consumed
charged == from_gas(total_cost, CONV_RATE)

Executed ==
    /\ dphase = "done" /\ session_result # NoResult
    /\ deploy_result.error \notin {"Finalization", "KeyNotFound"}

\* the motes a successful session code moved out of the main purse
session_transferred ==
    IF session_result.status = "Success"
    THEN (prestate.main - payment_purse_balance) - session_tc.main
    ELSE 0

KeysAssociated ==
    \A key \in deploy_item.authorization_keys : key \in DOMAIN associated_keys

\* the weights of the authorization keys reach the deployment threshold
WeightsReachThreshold ==
    calculate_keys_weight(deploy_item.authorization_keys) >= deployment_threshold

\* the deploy found its prestate and fails the authorization of C13
Unauthorized ==
    /\ dphase # "start" /\ deploy_item.prestate_hash \in state_roots
    /\ ~(KeysAssociated /\ WeightsReachThreshold)

\* no payment or session code was run and the deploy returned `error`
RejectedWith(error) ==
    /\ dphase = "done"
    /\ payment_result = NoResult /\ session_result = NoResult
    /\ deploy_result = precondition_failure(error)

\* C13 as stated: a deploy whose authorization keys are not all associated keys
\* of the account, or whose weights stay below the deployment threshold, runs no
\* code and returns the precondition failure Authorization.
C13_UnauthorizedIsAuthorization == Unauthorized => RejectedWith("Authorization")

\* C13, amended: such a deploy runs no code and returns a precondition failure:
\* Authorization when some authorization key is not an associated key of the
\* account, DeploymentAuthorizationFailure when all are associated but their
\* weights stay below the deployment threshold.
C13_UnauthorizedIsRejected ==
    Unauthorized =>
        RejectedWith(IF KeysAssociated THEN "DeploymentAuthorizationFailure"
                     ELSE "Authorization")

\* one associated key of weight 1 against a threshold of 2
C13_Witness ==
    /\ Unauthorized /\ KeysAssociated
    /\ deploy_item.session_valid /\ prestate.main >= MAX_PAYMENT
    /\ deploy_result.error = "DeploymentAuthorizationFailure"

\* the errors the specification classes as precondition failures
PreconditionErrors ==
    {"RootNotFound", "Authorization", "InvalidProtocolVersion", "InvalidUpgradeConfig",
     "WasmPreprocessing", "InsufficientPayment", "MissingSystemContract"}

\* this step ends a deploy, before any code of it ran, or an upgrade, in a
\* precondition failure
EndsInPreconditionFailure ==
    \/ /\ dphase # "done" /\ dphase' = "done" /\ payment_result' = NoResult
       /\ deploy_result'.error \in PreconditionErrors
    \/ /\ upgrade_result = NoUpgradeResult
       /\ upgrade_result'.error \in PreconditionErrors

\* C14: a deploy or a commit_upgrade that ends in a precondition failure leaves
\* the persisted state unchanged (the global-state roots and the protocol-data
\* table) and reports no effects.
C14_PreconditionFailureLeavesState ==
    [][EndsInPreconditionFailure =>
           /\ protocol_data_store' = protocol_data_store
           /\ state_roots' = state_roots
           /\ deploy_result'.effect = EmptyMap
           /\ upgrade_result'.effect = EmptyMap]_vars

\* C15: once the payment code of a deploy has run, every outcome reports the
\* gas consumed and charges the account for it: the cost is at least the gas the
\* payment and session code used, and its motes have moved from the main purse
\* to the rewards purse; only a deploy none of whose Wasm ran has zero cost and
\* no effects.
C15_ExecutedCodeIsCharged ==
    (dphase = "done" /\ payment_result # NoResult) =>
        LET final == apply_effect(prestate, deploy_result.effect)
            motes == deploy_result.cost * CONV_RATE
        IN  /\ deploy_result.cost >= payment_result.cost + session_result.cost
            /\ final.rewards = prestate.rewards + motes
            /\ final.main <= prestate.main - motes

----------------------------------------------------------------------------
(* Properties of the transactional store *)

\* thread t begins a transaction in this step
Begins(t) == txn[t].kind = "none" /\ txn'[t].kind # "none"

\* C16: reads are snapshot-isolated: what an open read transaction reads under
\* any handle is changed by no step of a writer, neither its puts nor its
\* commit, and a read transaction opened after a commit reads all that was
\* committed.
C16_SnapshotIsolation ==
    [][\A t \in Threads, handle \in Handles :
           /\ (txn[t].kind = "ro" /\ txn'[t].kind = "ro") =>
                  (txn_read(txn[t], handle))' = txn_read(txn[t], handle)
           /\ (Begins(t) /\ txn'[t].kind = "ro") =>
                  (txn_read(txn[t], handle))' = db[handle]]_vars

\* reader 1, opened before the commit, does not see the leaf that reader 2,
\* opened after it, has read
C16_Witness ==
    /\ txn[1].kind = "ro" /\ txn_read(txn[1], "a") = NoValue
    /\ db["a"] = "leaf"
    /\ txn[2].kind = "ro" /\ th[2].result = "leaf"

\* C17: a read-write transaction is atomic across the databases: the committed
\* store changes only in the step that commits a transaction whose puts are all
\* made, and then to all of them at once; puts, aborts and drops leave it as
\* it was.
C17_AtomicCommit ==
    [][db' # db =>
           \E t \in Threads :
               /\ th[t].pc = "rw" /\ th[t].todo = <<>> /\ txn'[t] = NoTxn
               /\ db' = txn[t].view
               /\ \A i \in DOMAIN th[t].items : db'[th[t].items[i]] = "leaf"]_vars

\* a writer has put to both databases and not committed: the store is empty
C17_Witness ==
    \E t \in Threads :
        /\ th[t].pc = "rw" /\ th[t].items = <<"a", "b">> /\ th[t].todo = <<>>
        /\ txn[t].view = [handle \in Handles |-> "leaf"]
        /\ db = EmptyDb

\* thread t, whose operation found the map full, takes its next step
AfterMapFull(t) == th[t].pc = "map_full" /\ th'[t].pc # "map_full"

\* thread t sets the new map size in this step
Resizes(t) == th[t].pc = "set_map_size" /\ th'[t].pc = "retry"

\* thread t begins its operation again in this step
Retries(t) == th[t].pc = "retry" /\ th'[t].pc # "retry"

\* C18: every operation of the global state follows the resize-retry protocol:
\* after MapFull its next step aborts its transaction, the map size is then set
\* to GROWTH_RATIO times the size read, with no transaction of the operation
\* open, and the operation is begun again as a whole, on the store as it then
\* is; a transaction is begun with the map size another process has grown the
\* map to.
C18_ResizeRetryProtocol ==
    [][\A t \in Threads :
           /\ AfterMapFull(t) => txn'[t] = NoTxn /\ map_size' = map_size
           /\ Resizes(t) =>
                  /\ txn[t] = NoTxn
                  /\ map_size' = GROWTH_RATIO * th[t].current_map_size
           /\ Retries(t) =>
                  /\ th'[t].op = th[t].op /\ th'[t].todo = th[t].items
                  /\ txn'[t].view = db
           /\ Begins(t) => map_size' >= disk_map_size]_vars

\* n is the initial map size, 1, times a power of two
IsPowerOfTwo(n) == \E k \in 0..(2 * MaxMapSize) : n = 2 ^ k

\* C19: the map size grows only by doubling: every resize sets it to exactly
\* twice the size the map had immediately before, it stays the initial size
\* times a power of two, and it never decreases, whichever threads and
\* processes resize concurrently.
C19_MapSizeOnlyDoubles ==
    [][/\ \A t \in Threads : Resizes(t) => map_size' = GROWTH_RATIO * map_size
       /\ IsPowerOfTwo(map_size')
       /\ map_size' >= map_size]_vars

\* the threads that hold an open read-write transaction
Writers == {t \in Threads : txn[t].kind = "rw"}

\* C20: at any time at most one read-write transaction is active on the store,
\* and while one is open a read transaction can begin, read and finish: a
\* writer never blocks readers.
C20_OneWriterManyReaders ==
    /\ Cardinality(Writers) <= 1
    /\ \A t \in Threads \ Writers :
           /\ th[t].pc = "idle" => ENABLED create_read_txn(t, "read")
           /\ th[t].pc = "ro" =>
                  /\ \A handle \in Handles : ENABLED store_get(t, handle, FALSE)
                  /\ ENABLED txn_commit(t, FALSE)

\* a reader is open, and has read, next to a writer with an uncommitted put,
\* while the other writer of the model waits to begin again
C20_Witness ==
    \E w \in Writers, t \in Threads \ Writers :
        /\ txn[w].view # db
        /\ txn[t].kind = "ro" /\ txn[t].view = db /\ th[t].result = "leaf"

----------------------------------------------------------------------------
(* Properties of the global state and its history *)

\* what the reader of the last checkout, if there is one, reads under key k
Reads(checkout, store, k) ==
    IF checkout.impl = "inmem" THEN inmem_read(checkout.reader.view, k)
    ELSE lmdb_read(store, checkout.reader.view, k)

\* the value of key k in a state; 0 when the state has none
ValueIn(state, k) == IF k \in DOMAIN state THEN state[k] ELSE 0

\* C21: checkout(root) returns a reader exactly when root is the initial root
\* or a root an earlier successful commit returned, and the reader then reads
\* the values stored at that root; for any other hash it returns None.
C21_CheckoutOfReturnedRoots ==
    [][last_checkout' # last_checkout =>
           LET checkout == last_checkout'
               roots == returned[checkout.impl]
           IN  /\ checkout.reader.some <=> checkout.hash \in DOMAIN roots
               /\ checkout.reader.some =>
                      \A k \in Keys : Reads(checkout, trie_store', k) =
                                          ValueIn(roots[checkout.hash], k)]_vars

\* what a checkout of `hash` reads under key k in the global state as it is
\* after the step
ReadsAt(impl, hash, k) ==
    IF impl = "inmem" THEN inmem_read(inmem_checkout(history', hash).view, k)
    ELSE lmdb_read(trie_store', lmdb_checkout(trie_store', hash).view, k)

CheckoutSucceeds(impl, hash) ==
    IF impl = "inmem" THEN inmem_checkout(history', hash).some
    ELSE lmdb_checkout(trie_store', hash).some

\* this step is a successful commit
Commits == last_commit' # last_commit /\ last_commit'.result = "Success"

\* C22: commits preserve history: after every step a checkout of each root
\* returned so far succeeds and reads exactly the values the root had when it
\* was returned, so a key first written by a later commit reads as absent
\* there; and the root a commit returns reads the values the commit wrote.
C22_HistoryIsPreserved ==
    [][/\ \A impl \in {"inmem", "lmdb"} : \A hash \in DOMAIN returned[impl] :
              /\ CheckoutSucceeds(impl, hash)
              /\ \A k \in Keys : ReadsAt(impl, hash, k) = ValueIn(returned[impl][hash], k)
       /\ Commits =>
              LET c == last_commit'
              IN  \A k \in Keys :
                      ReadsAt(c.impl, c.hash, k) =
                          IF k \notin DOMAIN c.effects
                          THEN ValueIn(returned[c.impl][c.prestate_hash], k)
                          ELSE IF c.effects[k].op = "Write" THEN c.effects[k].value
                          ELSE ValueIn(returned[c.impl][c.prestate_hash], k)
                                   + c.effects[k].value]_vars

\* a commit on the initial root wrote key 2 for the first time and changed
\* key 1: the initial root still holds what it held
C22_Witness ==
    /\ last_commit.result = "Success" /\ last_commit.impl = "inmem"
    /\ last_commit.prestate_hash = EMPTY_ROOT_HASH
    /\ history[EMPTY_ROOT_HASH] = (1 :> 1)
    /\ history[last_commit.hash] = (1 :> 2) @@ (2 :> 1)

\* the CommitResult of a commit: its kind, the key of KeyNotFound, the new root
CommitResult(committed) == <<committed.result, committed.key, committed.hash>>

\* C23: commit applies the effects in ascending order of the keys: what a
\* commit on an InMemHist returns, the new root on success and the error on
\* failure, is what applying the effects in ascending key order returns, and so
\* is the same for every order in which the map of effects can be iterated.
C23_CommitIsDeterministic ==
    [][(last_commit' # last_commit /\ last_commit'.impl = "inmem") =>
           LET c == last_commit'
           IN  /\ CommitResult(c) =
                      CommitResult(inmem_commit(history, c.prestate_hash, c.effects,
                                                ascending(c.effects, Cardinality(Keys))))
               /\ \A order \in Orders(c.effects) :
                      CommitResult(c) =
                          CommitResult(inmem_commit(history, c.prestate_hash,
                                                    c.effects, order))]_vars

----------------------------------------------------------------------------
(* Properties of a batch of deploys *)

\* the purse balances the parent state has once the effects of a result are
\* applied to it
AppliedToParent(result) == apply_effect(prestate, result.effect)

----------------------------------------------------------------------------
(* Properties of the addresses an execution generates *)

\* the entries of the log that the host call op of one invocation made
MintedBy(op) == {i \in DOMAIN minted.log : minted.log[i].op = op}
SameInvocation(i, j) == minted.log[i].inv = minted.log[j].inv

\* C25: any two calls of new_function_address in the same invocation return
\* distinct addresses.
C25_FunctionAddressesDistinct ==
    \A i, j \in MintedBy("store_function") :
        (i # j /\ SameInvocation(i, j)) => minted.log[i].addr # minted.log[j].addr

\* one invocation has drawn two function addresses
C25_Witness ==
    \E i, j \in MintedBy("store_function") : i # j /\ SameInvocation(i, j)

\* C26: the RNG of a top-level deploy is seeded with the digest of
\* account_addr, block time and nonce, so that deploys that differ in one of
\* the three start from different seeds, and deploys that agree from the same.
C26_SeedFromDeployInputs ==
    Depth > 0 =>
        stack[1].rng.seed =
            VarBlake2b(minted.deploy.account_addr
                       \o <<minted.deploy.timestamp, minted.deploy.nonce>>)

\* C27: within one deploy the addresses minted by new_uref in the parent
\* invocation and in each of its sub-calls are pairwise distinct.
C27_URefAddressesDistinct ==
    \A i, j \in MintedBy("new_uref") :
        i # j => minted.log[i].addr # minted.log[j].addr

\* C38: all contract addresses that new_function_address produces within one
\* deploy, in the top-level invocation and in all of its sub-calls, are
\* pairwise distinct; in particular a contract the caller stores after a
\* sub-call returned never gets the address of a contract the callee stored.
C38_FunctionAddressesDistinctInDeploy ==
    \A i, j \in MintedBy("store_function") :
        i # j => minted.log[i].addr # minted.log[j].addr

\* a read, write or add of an Account or Hash key has just returned
NonURefAccess(op) ==
    /\ last.op = op /\ last.key.tag \in {"Account", "Hash"}
    /\ last.depth = Depth

\* C28: an Account key is readable and addable only when it equals the
\* context's base_key, a Hash key is always readable and addable only when it
\* equals base_key, and neither is ever writable; a violation is rejected with
\* InvalidAccess, and nothing else is.
C28_BaseKeyRule ==
    /\ NonURefAccess("read") =>
           (last.res = "InvalidAccess" <=>
                (last.key.tag = "Account" /\ last.key # Top.base_key))
    /\ NonURefAccess("add") =>
           (last.res = "InvalidAccess" <=> last.key # Top.base_key)
    /\ NonURefAccess("write") => last.res = "InvalidAccess"

\* a contract called by the account reads the account's key and is refused
C28_Witness ==
    /\ NonURefAccess("read") /\ last.key = Account(ACC)
    /\ Top.base_key.tag = "Hash" /\ last.res = "InvalidAccess"

\* C29: in a sub-call at any depth, get_caller returns the public key of the
\* account that originated the top-level deploy.
C29_CallerIsOriginator ==
    last.op = "get_caller" =>
        /\ last.res = "Ok"
        /\ last.key = Account(minted.deploy.account_addr)

\* get_caller has returned inside a sub-call
C29_Witness ==
    /\ last.op = "get_caller" /\ last.depth = MaxDepth /\ Depth = MaxDepth
    /\ stack[Depth].base_key.tag = "Hash"

----------------------------------------------------------------------------
(* Properties of the tracking copy within one deploy *)

\* the host calls that write a value, and the read that looks it up again
Writes == {"write", "new_uref", "store_function", "write_local"}
ReadOf(op) == IF op = "write_local" THEN "read_local" ELSE "read"
ReadBack ==
    /\ last.op \in Writes /\ last.res = "Ok"
    /\ last'.op = ReadOf(last.op) /\ last'.res = "Ok"
    /\ normalize(last'.key) = normalize(last.key)

\* C30: after a write, store_contract or local write of value v under a key,
\* the next read of that key in the same deploy returns v, before anything is
\* committed: the write leaves v under the key in the tracking copy, and a
\* read that follows returns what the tracking copy holds there.
C30_ReadYourWrites ==
    [][/\ \A key \in EmbedKeys, value \in ProgValues :
              (write(key, value) /\ last'.res = "Ok") => tc'[normalize(key)] = value
       /\ \A value \in ProgValues :
              (new_uref(value) /\ last'.res = "Ok") => tc'[normalize(last'.key)] = value
       /\ \A urefs \in ProgNamedKeys :
              (store_function(urefs) /\ last'.res = "Ok") =>
                  tc'[last'.key] = ContractValue(urefs)
       /\ \A key_bytes \in LocalKeys, value \in ProgValues :
              (write_local(key_bytes, value) /\ last'.res = "Ok") =>
                  tc'[last'.key] = value
       /\ ReadBack =>
              /\ Len(stack') = Len(stack)
              /\ stack'[Len(stack')].host_buf = tc[normalize(last.key)]]_vars

\* a value written in this deploy, different from what the state held under
\* the key, has been read back
C30_Witness ==
    /\ last.op \in {"read", "read_local"} /\ last.res = "Ok" /\ last.depth = Depth
    /\ normalize(last.key) \in DOMAIN tc
    /\ Top.host_buf = tc[normalize(last.key)]
    /\ Top.host_buf # tc_read(EmptyMap, last.key)

----------------------------------------------------------------------------
(* Properties of the gates of a deploy *)

\* the deploy has returned before any of its code ran
ReturnedAtGate == dphase = "done" /\ payment_result = NoResult

\* C34: the precondition gates of a deploy are evaluated in the order
\* checkout, authorization, balance floor, module loading, and the error of
\* the earliest failing gate is reported: a deploy from an account below the
\* balance floor is rejected with InsufficientPayment even when its session
\* module is also invalid.
C34_GateOrder ==
    (ReturnedAtGate /\ deploy_item.protocol_version \in DOMAIN protocol_data_store) =>
        IF deploy_item.prestate_hash \notin state_roots
        THEN deploy_result.status = "RootNotFound"
        ELSE IF ~can_authorize(deploy_item.authorization_keys)
        THEN deploy_result.error = "Authorization"
        ELSE IF ~can_deploy_with(deploy_item.authorization_keys)
        THEN deploy_result.error = "DeploymentAuthorizationFailure"
        ELSE IF prestate.main < MAX_PAYMENT
        THEN deploy_result.error = "InsufficientPayment"
        ELSE deploy_result.error = "WasmPreprocessing"

----------------------------------------------------------------------------
(* Properties of the gas a deploy may spend *)

\* C35: whenever the session code is allowed to run, its gas limit
\* payment_purse_balance / CONV_RATE - payment_cost is not negative, and at
\* finalize the total cost times CONV_RATE is at most the payment purse
\* balance, so the payment purse can pay the whole cost.
C35_CostWithinPayment ==
    /\ dphase = "session" => from_motes(payment_purse_balance, CONV_RATE) >= payment_result.cost
    /\ dphase = "finalize" => /\ finalize_cost_motes <= payment_purse_balance
                              /\ finalize_cost_motes <= purses.payment

\* a session that spent all of a limit that the division rounded down
C35_Witness ==
    /\ dphase = "finalize"
    /\ session_result.cost > 0
    /\ session_result.cost = session_gas_limit
    /\ payment_purse_balance % CONV_RATE # 0

----------------------------------------------------------------------------
(* Properties of the resize-retry loop *)

\* C36: several writers that share one store and each follow the resize-retry
\* loop all finish: every writer eventually has committed its value once and
\* has moved on to the next value, whatever the interleaving of MapFull and
\* MapResized among them.
C36_WritersMoveOn ==
    \A t \in Threads : <>(writers.th[t].val > 0 /\ writers.commits[t] = 1)

----------------------------------------------------------------------------
(* Properties of the known URefs across host calls *)

\* every right of `held` is still granted by `kept`: by the same rights or by
\* rights that include them
RightsKept(held, kept) ==
    \A addr \in DOMAIN held :
        /\ addr \in DOMAIN kept
        /\ \A rights \in held[addr] :
               \E granted \in kept[addr] : BitAnd(granted, rights) = rights

\* C37: during an invocation the known-URefs map only grows: no step, be it the
\* insertion of a new URef or the merge of the URefs a sub-call returned,
\* removes a right that the context of an invocation still running held for
\* an address.
C37_KnownURefsOnlyGrow ==
    [][\A d \in 1..Depth :
           d <= Len(stack') => RightsKept(stack[d].known_urefs, stack'[d].known_urefs)]_vars

\* C39: a host operation that returns an error leaves the known URefs of its
\* context unchanged; in particular a new_uref whose initial value is rejected
\* does not leave the URef it drew in the known URefs.
C39_ErrorLeavesKnownURefs ==
    [][(steps' = steps + 1 /\ last'.res # "Ok" /\ Len(stack') = Depth) =>
           stack'[Depth].known_urefs = Top.known_urefs]_vars

\* the rights that occur with the address anywhere in the keys
RightsOf(keys, addr) ==
    {keys[i].rights : i \in {j \in DOMAIN keys : keys[j].tag = "URef" /\ keys[j].addr = addr}}

\* C40: vec_key_rights_to_map maps every URef address of its input to the set
\* of all access rights that occur with that address anywhere in the input,
\* whatever the order of the keys; keys that are no URefs contribute nothing.
C40_RightsGroupedByAddress ==
    grouping.returned =>
        /\ DOMAIN grouping.output = uref_addrs(grouping.input)
        /\ \A addr \in DOMAIN grouping.output :
               grouping.output[addr] = RightsOf(grouping.input, addr)

----------------------------------------------------------------------------
(* Properties of the report of an execution *)

\* C32: gas exhaustion at any call depth unwinds the invocation that hit the
\* limit and every enclosing invocation, and the deploy is reported as failed
\* with GasLimit, the out-of-gas error, whether the limit was hit at top level
\* or inside a sub-call.
C32_GasLimitIsOutOfGas ==
    (trap.kind = "GasLimit" /\ exec_result.status # "None") =>
        /\ Depth = 1 /\ exec_result.status = "Err"
        /\ deploy_result_from(exec_returned_error(trap)).kind = "out_of_gas_error"

----------------------------------------------------------------------------
(* Properties of the versions of a contract *)

\* C33: once a version has been added to a ContractMetadata, active or since
\* removed, every later with_version for it fails with PreviouslyUsedVersion
\* and changes nothing; so every active version has the header it was added
\* with, a removed version stays removed, and no version is both active and
\* removed.
C33_VersionsAreImmutable ==
    [][/\ \A version \in SemVers, header \in ContractHeaders :
              (/\ ContractMetadata_with_version(version, header)
               /\ version \in DOMAIN versions.added) =>
                  /\ versions'.last.result = "PreviouslyUsedVersion"
                  /\ metadata' = metadata
       /\ \A version \in DOMAIN metadata'.active_versions :
              /\ version \in DOMAIN versions'.added
              /\ metadata'.active_versions[version] = versions'.added[version]
       /\ metadata.removed_versions \subseteq metadata'.removed_versions
       /\ metadata'.removed_versions \cap DOMAIN metadata'.active_versions = {}]_vars

\* a version that was added and removed has been refused
C33_Witness ==
    /\ versions.last.op = "with_version"
    /\ versions.last.result = "PreviouslyUsedVersion"
    /\ versions.last.version \in metadata.removed_versions

----------------------------------------------------------------------------
(* Properties of an upgrade *)

\* the new version strictly succeeds the current one; a major bump
Succeeds(current, new) ==
    new[1] > current[1] \/ (new[1] = current[1] /\ new[2] > current[2])
MajorBump(current, new) == new[1] > current[1]

====
